---- MODULE Spec2Model ----
(***************************************************************************)
(* pinterest-dl: the cursor-paginated retrieval loop of ApiScraper         *)
(* (scrape for pin and board sources, search) against an arbitrary API,    *)
(* and the BookmarkManager that holds the cursor tokens.                   *)
(***************************************************************************)
EXTENDS Integers, Sequences, FiniteSets, TLC

\* ---------------------------------------------------------------- bounds
MaxNum      == 2   \* small requested counts are 0..MaxNum
MaxOver     == 1   \* a response holds at most MaxOver items more than asked
MaxDup      == 1   \* repeated source URLs in one response
MaxDrop     == 1   \* items of one response that the parser drops
MaxTokens   == 2   \* cursor tokens in one response
MaxStored   == 2   \* cursor tokens a BookmarkManager stores in the model
MaxGaps     == 2   \* gap-filling requests counted per main batch
MaxPinCount == 1   \* small pin_counts of a board are 0..MaxPinCount
MaxAdded    == 5   \* tokens added to a BookmarkManager that is driven directly
MaxItems    == 2   \* items handed to the coordinator
MaxWorkers  == 2   \* threads of the coordinator's pool
MaxMediaId  == 2   \* ids of the descriptor handed to download
MaxRetries == 3    \* self.max_retries of an HlsProcessor or a KeyCache
MaxGetters == 2    \* threads calling KeyCache.get
MaxGets == 3       \* calls of KeyCache.get
MaxSegments == 2   \* segments of a media playlist
MaxVariants == 2   \* sub-playlists of a master playlist
MaxPayload == 2    \* items of a payload handed to the parser
MaxApiRetries == 2 \* self.max_retries of an ApiScraper
MaxEmptyRun == 3   \* empty main batches in a row that are counted
MaxUrls == 3       \* source URLs of the items merged
MaxBatch == 2      \* items of a batch merged
MaxAccumulated == 4 \* items of the accumulated list

\* ------------------------------------------------------ program constants
PageCap == 50
ScrapeBookmarks == 3
MaxLast == 4
max_consecutive_failures == 3

END == "-end-"

Min(a, b) == IF a <= b THEN a ELSE b
Max(a, b) == IF a >= b THEN a ELSE b

\* ------------------------------------------------------- BookmarkManager
BookmarkManager(last) == [bookmarks |-> <<>>, last |-> last]

\* BookmarkManager.__init__ raises ValueError if last < 0 or last > 4.
init_raises(last) == last < 0 \/ last > MaxLast

add(bm, bookmark) == [bm EXCEPT !.bookmarks = Append(@, bookmark)]

add_all(bm, bookmarks) == [bm EXCEPT !.bookmarks = @ \o bookmarks]

clear(bm) == [bm EXCEPT !.bookmarks = <<>>]

\* Python's b[-last:]; b[-0:] is b[0:], the whole list.
get(bm) ==
    LET b == bm.bookmarks
        n == Len(b)
    IN  IF n < bm.last THEN b
        ELSE IF bm.last = 0 THEN b
        ELSE SubSeq(b, n - bm.last + 1, n)

get_all(bm) == bm.bookmarks

Contains(s, x) == \E i \in 1..Len(s) : s[i] = x

\* ------------------------------------------------------------ the parser
\* A raw item of a response: its source URL, and whether it passes the
\* parser (a dict with images.orig, a url, and width/height >= minimum).
RawItem(src, ok) == [src |-> src, ok |-> ok]

\* ResponseParser.from_responses: EmptyResponseError on an empty payload,
\* else the admissible items in order.
from_responses(response_data) ==
    IF response_data = <<>>
    THEN [err |-> "EmptyResponseError", items |-> <<>>]
    ELSE LET adm == SelectSeq(response_data, LAMBDA it : it.ok)
         IN  [err |-> "none", items |-> [i \in 1..Len(adm) |-> adm[i].src]]

RECURSIVE unique_from(_, _, _, _)
unique_from(images, i, unique, seen) ==
    IF i > Len(images) THEN unique
    ELSE IF images[i] \in seen
         THEN unique_from(images, i + 1, unique, seen)
         ELSE unique_from(images, i + 1, Append(unique, images[i]), seen \cup {images[i]})

\* Nothing is removed.
unique_images_keep_all(images) == images

\* A list without repetitions is its own result.
unique_images(images) ==
    IF Cardinality({images[i] : i \in 1..Len(images)}) = Len(images)
    THEN images
    ELSE unique_from(images, 1, <<>>, {})

\* images[:n] left out: the whole list is returned.
PrefixNoCut(images, n) == images

\* Python's images[:n]
Prefix(images, n) ==
    IF n >= 0 THEN SubSeq(images, 1, Min(n, Len(images)))
    ELSE SubSeq(images, 1, Max(0, Len(images) + n))

\* len(images[-n:]) for n >= 1
LenSuffix(images, n) == Min(n, Len(images))

\* -------------------------------------------------------------- the API
validate_num(n) == n >= 1 /\ n <= PageCap

Kinds == {"pin", "board", "search"}
NumChoices == (0..MaxNum) \cup {60}
PinCounts == (0..MaxPinCount) \cup {60}
\* bookmarksCount of search: the cap that keeps everything, the default, the largest.
SearchCaps == {0, 1, MaxLast}
Tokens == {END, "b"}

RECURSIVE SeqsUpTo(_, _)
SeqsUpTo(S, n) ==
    IF n = 0 THEN {<<>>}
    ELSE LET shorter == SeqsUpTo(S, n - 1)
         IN  shorter \cup {Append(s, x) : s \in {t \in shorter : Len(t) = n - 1}, x \in S}

TokenLists == SeqsUpTo(Tokens, MaxTokens)

\* The URLs handed out so far are 1, 2, ...: the next unseen one.
NextUrl(images) == 1 + Cardinality({images[i] : i \in 1..Len(images)})

\* A page is small when the model explores every answer to it; a request
\* for a larger page is served in full, with nothing or ten items dropped
\* by the parser.
SmallPage(n) == n <= MaxNum + MaxOver

\* Raw sizes an answer to a request for n items may have.
RawSizes(n) == IF SmallPage(n) THEN 0..(n + MaxOver) ELSE {n}

\* How many of them the parser drops, and how many repeat URL 1.
Drops(n) == IF SmallPage(n) THEN 0..MaxDrop ELSE {0, 10}

Dups(n) == IF SmallPage(n) THEN 0..MaxDup ELSE {0}

\* The payload with f unseen URLs, d repetitions of URL 1, x inadmissible items.
Payload(f, d, x, next) ==
    IF f + d + x = 0 THEN <<>>
    ELSE [i \in 1..(f + d + x) |->
            IF i <= f THEN RawItem(next + i - 1, TRUE)
            ELSE IF i <= f + d THEN RawItem(1, TRUE)
            ELSE RawItem(0, FALSE)]

\* exc: what the API client raises ("Rejected": the ValueError of its page
\* size check, "ValueError": an invalid or error response, "Other": a
\* transport error); data and bookmarks: the payload and the cursor tokens of
\* the response, which always carries a bookmarks list.
Answer(exc, data, tokens) == [exc |-> exc, data |-> data, bookmarks |-> tokens]

\* Everything the API client may hand back for a request of n items.
ApiAnswers(n, images, bm) ==
    IF ~validate_num(n)
    THEN {Answer("Rejected", <<>>, <<>>)}
    ELSE LET next == NextUrl(images) IN
         {Answer("ValueError", <<>>, <<>>), Answer("Other", <<>>, <<>>)}
         \cup
         {Answer("none", Payload(t - x - d, d, x, next), toks) :
            <<t, x, d, toks>> \in
              {q \in RawSizes(n) \X Drops(n) \X Dups(n) \X TokenLists :
                  /\ q[2] + q[3] <= q[1]
                  /\ (q[3] > 0 => (images # <<>> \/ q[1] - q[2] - q[3] >= 1))
                  /\ Len(bm.bookmarks) + Len(q[4]) <= MaxStored}}

\* ------------------------------------------------- one request, parsed
Fetched(exc, batch, bm) == [exc |-> exc, batch |-> batch, bookmarks |-> bm]

\* ApiScraper._get_images: an empty payload gives ([], bookmarks) with the
\* bookmarks untouched.
get_images(bm, ans) ==
    IF ans.exc = "Rejected" THEN Fetched("ValueError", <<>>, bm)
    ELSE IF ans.exc # "none" THEN Fetched(ans.exc, <<>>, bm)
    ELSE LET p == from_responses(ans.data)
         IN  IF p.err = "EmptyResponseError" THEN Fetched("none", <<>>, bm)
             ELSE Fetched("none", p.items, add_all(bm, ans.bookmarks))

\* ApiScraper._get_images_with_retry: retries only on EmptyResponseError,
\* which _get_images never lets out; any other exception is re-raised.
get_images_with_retry(bm, ans) == get_images(bm, ans)

\* ApiScraper._search_images: the parser's EmptyResponseError gets out.
search_images(bm, ans) ==
    IF ans.exc = "Rejected" THEN Fetched("ValueError", <<>>, bm)
    ELSE IF ans.exc # "none" THEN Fetched(ans.exc, <<>>, bm)
    ELSE LET p == from_responses(ans.data)
         IN  IF p.err = "EmptyResponseError" THEN Fetched("EmptyResponseError", <<>>, bm)
             ELSE Fetched("none", p.items, add_all(bm, ans.bookmarks))

\* The page cap left out: batch_size = remains.
BatchSizeNoCap(remains) == remains

\* min(50, remains)
BatchSize(remains) == Min(PageCap, remains)

\* difference = batch_size - len(images[-batch_size:])
Difference(batch_size, images) == batch_size - LenSuffix(images, batch_size)

\* Off by one: while remains > 1.
LoopContinuesEarlyExit(remains) == remains > 1

\* The while condition of the main loops.
LoopContinues(remains) == remains > 0

\* Off by one: while difference >= 0.
GapContinuesAtZero(kind, difference, remains, bm) ==
    /\ difference >= 0
    /\ remains > 0
    /\ (kind # "search" => ~Contains(get(bm), END))

\* The condition under which the gap-filling loop sends (another) request:
\* while difference > 0 and remains > 0, and, for pin and board sources,
\* no "-end-" in bookmarks.get().
GapContinues(kind, difference, remains, bm) ==
    /\ difference > 0
    /\ remains > 0
    /\ (kind # "search" => ~Contains(get(bm), END))

\* One iteration of the loop of _handle_missing_images (pin, board): every
\* exception is swallowed and ends gap-filling; so does an empty payload.
\* stop: the loop was left by break.  exc: what _handle_missing_images raises.
Gap(images, bm, remains, difference, stop, exc) ==
    [images |-> images, bookmarks |-> bm, remains |-> remains,
     difference |-> difference, stop |-> stop, exc |-> exc]

\* Nothing is caught: what the request raises gets out.
handle_missing_images_raising(images, bm, remains, difference, ans) ==
    IF ans.exc = "Rejected" THEN Gap(images, bm, remains, difference, TRUE, "ValueError")
    ELSE IF ans.exc # "none" THEN Gap(images, bm, remains, difference, TRUE, ans.exc)
    ELSE IF ans.data = <<>> THEN Gap(images, bm, remains, difference, TRUE, "none")
    ELSE Gap(images \o from_responses(ans.data).items, add_all(bm, ans.bookmarks),
             remains - Len(from_responses(ans.data).items),
             difference - Len(from_responses(ans.data).items), FALSE, "none")

handle_missing_images(images, bm, remains, difference, ans) ==
    IF ans.exc # "none" THEN Gap(images, bm, remains, difference, TRUE, "none")
    ELSE IF ans.data = <<>> THEN Gap(images, bm, remains, difference, TRUE, "none")
    ELSE LET additional == from_responses(ans.data).items
         IN  Gap(images \o additional, add_all(bm, ans.bookmarks),
                 remains - Len(additional), difference - Len(additional),
                 FALSE, "none")

\* One iteration of the loop of _handle_missing_search_images: nothing is
\* caught here, and the terminal marker is not looked at.
handle_missing_search_images(images, bm, remains, difference, ans) ==
    IF ans.exc = "Rejected" THEN Gap(images, bm, remains, difference, TRUE, "ValueError")
    ELSE IF ans.exc # "none" THEN Gap(images, bm, remains, difference, TRUE, ans.exc)
    ELSE LET p == from_responses(ans.data)
         IN  IF p.err = "EmptyResponseError"
             THEN Gap(images, bm, remains, difference, TRUE, "EmptyResponseError")
             ELSE Gap(images \o p.items, add_all(bm, ans.bookmarks),
                      remains - Len(p.items), difference - Len(p.items),
                      FALSE, "none")

\* ------------------------------------------------------------------ state
VARIABLES
    kind,          \* "pin" | "board" | "search": what the URL names
    num,           \* the requested count
    bookmarksCount,\* the cap of the BookmarkManager (3 for scrape)
    pc,            \* "start" | "loop" | "gap" | "done" | "raised" | "bm"
    target,        \* num of the running loop (after the board clamp)
    remains,
    images,        \* the accumulated list (source URLs)
    bookmarks,     \* the BookmarkManager of the call
    batch_size,
    difference,
    result,        \* what scrape / search returned
    endSeen,       \* history: some response delivered "-end-" among its tokens
    interrupted,   \* history: the loop was left on ValueError / EmptyResponseError
    rejected,      \* history: the API client refused a page size
    last,          \* history: the latest request
    lastMain,      \* history: the latest main batch request
    gaps,          \* history: gap-filling requests since the latest main batch
    cs,            \* a BookmarkManager driven directly by add / add_all / clear
    has_cookies,   \* ApiScraper.cookies is set (with_cookies was called)
    io             \* HTTP requests sent since search was entered

\* The prologue of search, up to the construction of its BookmarkManager.
cfgVars == <<has_cookies, io>>

CfgIdle == has_cookies = TRUE /\ io = 0

\* _ConcurrentCoordinator.run, and download_media around it.
VARIABLES
    items,         \* the input list
    fail_fast,
    max_workers,
    caller,        \* "run": any worker; "download_media": MediaDownloader.download
    coPc,          \* "idle" | "loop" | "cancel" | "exit" | "returned" | "raised" | "written"
    fut,           \* per item, its future: "pending" | "running" | "finished" |
                   \* "failed" | "cancelled"
    value,         \* per item, what its worker returned (None until then)
    invoked,       \* history: per item, how often worker was called for it
    seen,          \* the futures as_completed has yielded
    results,
    errors,        \* the dict, as its entries in insertion order
    done,
    calls,         \* history: the arguments of every progress callback call
    cancelIdx,     \* position of the cancelling loop in future_to_meta
    cur,           \* the item whose failure is being handled
    pendingAtFail, \* history: the futures not yet started when that failure was observed
    outcome,       \* what run returned or raised
    local_path     \* per item, PinterestMedia.local_path

coVars == <<items, fail_fast, max_workers, caller, coPc, fut, value, invoked,
            seen, results, errors, done, calls, cancelIdx, cur, pendingAtFail,
            outcome, local_path>>

None == 0

NoOutcome == [exc |-> "none", list |-> <<>>, k |-> 0, total |-> 0, lines |-> <<>>, err |-> 0]

CoIdle ==
    /\ items = <<>>
    /\ fail_fast = FALSE
    /\ max_workers = 1
    /\ caller = "run"
    /\ coPc = "idle"
    /\ fut = <<>>
    /\ value = <<>>
    /\ invoked = <<>>
    /\ seen = {}
    /\ results = <<>>
    /\ errors = <<>>
    /\ done = 0
    /\ calls = <<>>
    /\ cancelIdx = 0
    /\ cur = 0
    /\ pendingAtFail = {}
    /\ outcome = NoOutcome
    /\ local_path = <<>>

\* One call of MediaDownloader.download.
VARIABLES
    pin_media,        \* the descriptor: id, src, video_stream
    download_streams,
    skip_remux,
    dlPc,             \* "idle" | "call" | "returned" | "raised"
    blob,             \* the call of http_client.download_blob: <<url, path>>, or <<>>
    streams,          \* the call of http_client.download_streams: <<url, path, skip_remux>>, or <<>>
    ret               \* the path returned, or <<>>

dlVars == <<pin_media, download_streams, skip_remux, dlPc, blob, streams, ret>>

NoStream == <<>>

DlIdle ==
    /\ pin_media = [id |-> 0, src |-> <<>>, video_stream |-> NoStream]
    /\ download_streams = FALSE
    /\ skip_remux = FALSE
    /\ dlPc = "idle"
    /\ blob = <<>>
    /\ streams = <<>>
    /\ ret = <<>>

\* One call of HlsProcessor.resolve_variant.
VARIABLES
    playlist,      \* playlist.playlists: the sub-playlists, each uri and bandwidth
    hlsPc,         \* "idle" | "call" | "resolved"
    resolved       \* what resolve_variant raised or returned

hlsVars == <<playlist, hlsPc, resolved>>

HlsIdle ==
    /\ playlist = <<>>
    /\ hlsPc = "idle"
    /\ resolved = [exc |-> "none", url |-> <<>>]

\* One call of HlsProcessor.enumerate_segments, then HlsProcessor.decrypt on
\* each segment it returned.
VARIABLES
    m3u8,          \* the media playlist: media_sequence and segments (uri, key)
    segPc,         \* "idle" | "call" | "returned" | "raised"
    segments,      \* the SegmentInfo list enumerate_segments returned
    segExc,        \* the exception enumerate_segments raised, "none" if none
    decrypted      \* per segment decrypted so far: the key uri and the iv used

segVars == <<m3u8, segPc, segments, segExc, decrypted>>

SegIdle ==
    /\ m3u8 = [media_sequence |-> 0, segments |-> <<>>]
    /\ segPc = "idle"
    /\ segments = <<>>
    /\ segExc = "none"
    /\ decrypted = <<>>

\* One call of HlsProcessor.download_segment.
VARIABLES
    max_retries,   \* self.max_retries
    rtPc,          \* "idle" | "loop" | "returned" | "raised"
    responses,     \* what self.session.get answered, request after request
    last_exc,      \* last_exc
    content        \* the bytes download_segment returned

rtVars == <<max_retries, rtPc, responses, last_exc, content>>

NoExc == [type |-> "None", status_code |-> 0]

RtIdle ==
    /\ max_retries = 0
    /\ rtPc = "idle"
    /\ responses = <<>>
    /\ last_exc = NoExc
    /\ content = ""

\* The KeyCache of one HlsProcessor and the threads calling its get.
VARIABLES
    key_retries,   \* self._max_retries
    cache,         \* self._cache: per url <<>> or <<the key bytes>>
    getter,        \* per thread: the get it is in, and what that get returned
    gets,          \* the calls of get so far
    downloads,     \* per url the number of responses with status 200
    returned       \* per url the keys that completed calls of get returned

kcVars == <<key_retries, cache, getter, gets, downloads, returned>>

KcIdle ==
    /\ key_retries = 0
    /\ cache = <<>>
    /\ getter = <<>>
    /\ gets = 0
    /\ downloads = <<>>
    /\ returned = <<>>

\* One call of HttpClient.download_streams.
VARIABLES
    stream,        \* the call: is_variant and segments of the playlist, output_path, skip_remux
    stPc,          \* the next step of download_streams, or "returned" | "raised"
    trace,         \* the calls on self.hls_processor so far, failed ones included
    temp_dir,      \* the TemporaryDirectory: whether it exists, and its files
    segment_paths, \* segment_paths
    written,       \* the files written outside the temporary directory
    outcome_st     \* what download_streams returned or raised

stVars == <<stream, stPc, trace, temp_dir, segment_paths, written, outcome_st>>

NoTempDir == [state |-> "none", files |-> {}]

NoError == [exc |-> "none", phase |-> "", stderr |-> {}, context |-> {}]

StIdle ==
    /\ stream = <<>>
    /\ stPc = "idle"
    /\ trace = <<>>
    /\ temp_dir = NoTempDir
    /\ segment_paths = <<>>
    /\ written = {}
    /\ outcome_st = [ret |-> <<>>, error |-> NoError]

\* The state of the stream reconstruction outside resolve_variant.
streamVars == <<segVars, rtVars, kcVars, stVars>>

StreamIdle == SegIdle /\ RtIdle /\ KcIdle /\ StIdle

\* The retrieval loop once more, with what the latest request was answered.
VARIABLES
    consecutive_empty_responses, \* the counter of _scrape_board
    answered,      \* history: the latest request and its answer
    emptyRun       \* history: main batches in a row answered by an empty payload

histVars == <<consecutive_empty_responses, answered, emptyRun>>

NoAnswer == [kind |-> "none", exc |-> "none", empty |-> FALSE, end |-> FALSE]

HistIdle ==
    /\ consecutive_empty_responses = 0
    /\ answered = NoAnswer
    /\ emptyRun = 0

\* One call of ApiScraper._get_images_with_retry.
VARIABLES
    self_max_retries, \* self.max_retries
    retry_delay,   \* self.retry_delay
    answers,       \* what the API answers, request after request
    rwPc,          \* "idle" | "call" | "returned" | "raised"
    attempts       \* what the call did: requests, waits, exception, batch

retryVars == <<self_max_retries, retry_delay, answers, rwPc, attempts>>

NoAttempts == [requests |-> 0, waits |-> <<>>, exc |-> "none", batch |-> <<>>]

RetryIdle ==
    /\ self_max_retries = 0
    /\ retry_delay = 0
    /\ answers = <<>>
    /\ rwPc = "idle"
    /\ attempts = NoAttempts

\* One call of ResponseParser.from_responses.
VARIABLES
    payload,       \* response_data
    min_resolution,
    parsePc,       \* "idle" | "call" | "returned" | "raised"
    media_items    \* the list returned

parseVars == <<payload, min_resolution, parsePc, media_items>>

ParseIdle ==
    /\ payload = <<>>
    /\ min_resolution = <<0, 0>>
    /\ parsePc = "idle"
    /\ media_items = <<>>

\* The accumulated list of one scrape, batch after batch.
VARIABLES
    medias,        \* the accumulated list (source URLs)
    old_medias,    \* history: the list before the latest batch
    mergePc,       \* "idle" | "loop" | "merged" | "extended": the latest step
    current_img_batch \* history: the latest batch

mergeVars == <<medias, old_medias, mergePc, current_img_batch>>

MergeIdle ==
    /\ medias = <<>>
    /\ old_medias = <<>>
    /\ mergePc = "idle"
    /\ current_img_batch = <<>>

\* The state of the scraper's helpers taken alone.
scrVars == <<histVars, retryVars, parseVars, mergeVars>>

ScrIdle == HistIdle /\ RetryIdle /\ ParseIdle /\ MergeIdle

\* The state outside the retrieval loop and its BookmarkManager.
asideVars == <<cfgVars, coVars, dlVars, hlsVars, streamVars, scrVars>>

AsideIdle == CfgIdle /\ CoIdle /\ DlIdle /\ HlsIdle /\ StreamIdle /\ ScrIdle

vars == <<kind, num, bookmarksCount, pc, target, remains, images, bookmarks,
          batch_size, difference, result, endSeen, interrupted, rejected,
          last, lastMain, gaps, cs, asideVars>>

\* kind: "main" | "gap"; size: the page size asked for; rem: remains when it
\* was sent; new: by how much the accumulated list grew.
\* ok: it was answered and handled without an exception.
Request(k, size, rem, new, ok) ==
    [kind |-> k, size |-> size, rem |-> rem, new |-> new, ok |-> ok]

NoRequest == Request("none", 0, 0, 0, FALSE)

\* first: it was the first request of the call; ok: the batch was merged;
\* new: newly added unique items; end: the response carried "-end-".
MainBatch(first, ok, new, end) == [first |-> first, ok |-> ok, new |-> new, end |-> end]

Init ==
    /\ kind \in Kinds
    /\ num \in NumChoices
    /\ bookmarksCount \in IF kind = "search" THEN SearchCaps ELSE {ScrapeBookmarks}
    /\ pc = "start"
    /\ target = num
    /\ remains = num
    /\ images = <<>>
    /\ bookmarks = BookmarkManager(bookmarksCount)
    /\ batch_size = 0
    /\ difference = 0
    /\ result = <<>>
    /\ endSeen = FALSE
    /\ interrupted = FALSE
    /\ rejected = FALSE
    /\ last = NoRequest
    /\ lastMain = MainBatch(FALSE, FALSE, 0, FALSE)
    /\ gaps = 0
    /\ cs = BookmarkManager(0)
    /\ AsideIdle

\* scrape / search up to the first evaluation of the loop condition; a board
\* first asks for its pin_count and clamps num to it.
Entry ==
    /\ pc = "start"
    /\ \E pin_count \in PinCounts :
         /\ kind # "board" => pin_count = 0
         /\ target' = IF kind = "board" THEN Min(num, pin_count) ELSE num
    /\ remains' = target'
    /\ pc' = "loop"
    /\ UNCHANGED <<kind, num, bookmarksCount, images, bookmarks, batch_size,
                   difference, result, endSeen, interrupted, rejected, last,
                   lastMain, gaps, cs>>

Begin == Entry /\ UNCHANGED asideVars

\* One pass of the main loop up to the gap-filling loop: the batch request,
\* the merge, the "-end-" check, and difference.
MainBatchOf(ans) ==
    /\ LET bs == BatchSize(remains)
           r == IF kind = "search" THEN search_images(bookmarks, ans)
                ELSE IF kind = "board" THEN get_images_with_retry(bookmarks, ans)
                ELSE get_images(bookmarks, ans)
           merged == unique_images(images \o r.batch)
           new == Len(merged) - Len(images)
           ended == Contains(get(r.bookmarks), END)
           diff == Difference(bs, merged)
       IN  /\ batch_size' = bs
           /\ rejected' = (rejected \/ ans.exc = "Rejected")
           /\ endSeen' = (endSeen \/ Contains(ans.bookmarks, END))
           /\ last' = Request("main", bs, remains, new, r.exc = "none")
           /\ lastMain' = MainBatch(last.kind = "none", r.exc = "none", new,
                                    Contains(ans.bookmarks, END))
           /\ gaps' = 0
           /\ IF r.exc = "Other"
              THEN /\ pc' = "raised"
                   /\ UNCHANGED <<images, remains, bookmarks, difference,
                                  result, interrupted>>
              ELSE IF r.exc # "none"
              THEN /\ pc' = "done"
                   /\ interrupted' = TRUE
                   /\ result' = Prefix(images, num)
                   /\ UNCHANGED <<images, remains, bookmarks, difference>>
              ELSE /\ images' = merged
                   /\ remains' = remains - new
                   /\ bookmarks' = r.bookmarks
                   /\ UNCHANGED interrupted
                   /\ IF ended
                      THEN /\ pc' = "done"
                           /\ result' = Prefix(merged, num)
                           /\ UNCHANGED difference
                      ELSE /\ difference' = diff
                           /\ pc' = IF GapContinues(kind, diff, remains', r.bookmarks)
                                    THEN "gap" ELSE "loop"
                           /\ UNCHANGED result
    /\ UNCHANGED <<kind, num, bookmarksCount, target, cs>>

MainRequest ==
    /\ pc = "loop"
    /\ LoopContinues(remains)
    /\ \E ans \in ApiAnswers(BatchSize(remains), images, bookmarks) : MainBatchOf(ans)
    /\ UNCHANGED asideVars

\* One pass of the gap-filling loop: a request for difference items.
GapFillOf(ans) ==
    /\ LET g == IF kind = "search"
                THEN handle_missing_search_images(images, bookmarks, remains, difference, ans)
                ELSE handle_missing_images(images, bookmarks, remains, difference, ans)
       IN  /\ rejected' = (rejected \/ ans.exc = "Rejected")
           /\ endSeen' = (endSeen \/ Contains(ans.bookmarks, END))
           /\ last' = Request("gap", difference, remains, Len(g.images) - Len(images),
                              ans.exc = "none" /\ g.exc = "none")
           /\ gaps' = Min(gaps + 1, MaxGaps)
           /\ images' = g.images
           /\ bookmarks' = g.bookmarks
           /\ remains' = g.remains
           /\ difference' = g.difference
           /\ IF g.exc = "Other"
              THEN /\ pc' = "raised"
                   /\ UNCHANGED <<result, interrupted>>
              ELSE IF g.exc # "none"
              THEN /\ pc' = "done"
                   /\ interrupted' = TRUE
                   /\ result' = Prefix(g.images, num)
              ELSE /\ pc' = IF ~g.stop /\ GapContinues(kind, g.difference, g.remains, g.bookmarks)
                            THEN "gap" ELSE "loop"
                   /\ UNCHANGED <<result, interrupted>>
    /\ UNCHANGED <<kind, num, bookmarksCount, target, batch_size, lastMain, cs>>

GapRequest ==
    /\ pc = "gap"
    /\ \E ans \in ApiAnswers(difference, images, bookmarks) : GapFillOf(ans)
    /\ UNCHANGED asideVars

\* The loop condition fails: return images[:num].
LoopEnd ==
    /\ pc = "loop"
    /\ ~LoopContinues(remains)
    /\ pc' = "done"
    /\ result' = Prefix(images, num)
    /\ UNCHANGED <<kind, num, bookmarksCount, target, remains, images, bookmarks,
                   batch_size, difference, endSeen, interrupted, rejected, last,
                   lastMain, gaps, cs>>

Finish == LoopEnd /\ UNCHANGED asideVars

Next == Begin \/ MainRequest \/ GapRequest \/ Finish

Spec == Init /\ [][Next]_vars

\* The program keeps running: whatever request it sends is answered.
LiveInit == Init /\ num \in 1..MaxNum

LiveSpec == LiveInit /\ [][Next]_vars /\ WF_vars(Next)

\* ------------------------------------- a BookmarkManager driven directly
BmTokens == {END, "b"}

InitBM ==
    /\ \E last_ \in 0..MaxLast : cs = BookmarkManager(last_)
    /\ kind = "pin"
    /\ num = 0
    /\ bookmarksCount = ScrapeBookmarks
    /\ pc = "bm"
    /\ target = 0
    /\ remains = 0
    /\ images = <<>>
    /\ bookmarks = BookmarkManager(ScrapeBookmarks)
    /\ batch_size = 0
    /\ difference = 0
    /\ result = <<>>
    /\ endSeen = FALSE
    /\ interrupted = FALSE
    /\ rejected = FALSE
    /\ last = NoRequest
    /\ lastMain = MainBatch(FALSE, FALSE, 0, FALSE)
    /\ gaps = 0
    /\ AsideIdle

fetchVars == <<kind, num, bookmarksCount, pc, target, remains, images, bookmarks,
               batch_size, difference, result, endSeen, interrupted, rejected,
               last, lastMain, gaps>>

Add ==
    /\ pc = "bm"
    /\ Len(cs.bookmarks) < MaxAdded
    /\ \E bookmark \in BmTokens : cs' = add(cs, bookmark)
    /\ UNCHANGED <<fetchVars, asideVars>>

AddAll ==
    /\ pc = "bm"
    /\ \E bs \in TokenLists :
         /\ Len(cs.bookmarks) + Len(bs) <= MaxAdded
         /\ cs' = add_all(cs, bs)
    /\ UNCHANGED <<fetchVars, asideVars>>

Clear ==
    /\ pc = "bm"
    /\ cs' = clear(cs)
    /\ UNCHANGED <<fetchVars, asideVars>>

NextBM == Add \/ AddAll \/ Clear

SpecBM == InitBM /\ [][NextBM]_vars

\* ------------------------------- search up to its BookmarkManager(last)
\* search is entered with any bookmarksCount, with or without cookies.
CapChoices == (0 - 1)..(MaxLast + 1)

InitCfg ==
    /\ kind = "search"
    /\ num = 0
    /\ bookmarksCount \in CapChoices
    /\ pc = "entry"
    /\ target = 0
    /\ remains = 0
    /\ images = <<>>
    /\ bookmarks = BookmarkManager(ScrapeBookmarks)
    /\ batch_size = 0
    /\ difference = 0
    /\ result = <<>>
    /\ endSeen = FALSE
    /\ interrupted = FALSE
    /\ rejected = FALSE
    /\ last = NoRequest
    /\ lastMain = MainBatch(FALSE, FALSE, 0, FALSE)
    /\ gaps = 0
    /\ cs = BookmarkManager(0)
    /\ has_cookies \in BOOLEAN
    /\ io = 0
    /\ CoIdle
    /\ DlIdle
    /\ HlsIdle
    /\ StreamIdle
    /\ ScrIdle

cfgFrame == <<kind, num, bookmarksCount, target, remains, images, bookmarks,
              batch_size, difference, result, endSeen, interrupted, rejected,
              last, lastMain, gaps>>

\* Api(url, self.cookies, ...): without cookies the constructor fetches the
\* default ones with requests.get, which may fail.
NewApi ==
    /\ pc = "entry"
    /\ \E ok \in BOOLEAN :
         /\ (has_cookies => ok)
         /\ pc' = IF ok THEN "api" ELSE "raised"
    /\ io' = IF has_cookies THEN io ELSE io + 1
    /\ UNCHANGED <<cfgFrame, cs, has_cookies, coVars, dlVars, hlsVars, streamVars, scrVars>>

\* bookmarks = BookmarkManager(bookmarksCount); the manager is then used.
NewBookmarks ==
    /\ pc = "api"
    /\ IF init_raises(bookmarksCount)
       THEN pc' = "config_error" /\ UNCHANGED cs
       ELSE pc' = "bm" /\ cs' = BookmarkManager(bookmarksCount)
    /\ UNCHANGED <<cfgFrame, has_cookies, io, coVars, dlVars, hlsVars, streamVars, scrVars>>

NextCfg == NewApi \/ NewBookmarks \/ Add \/ AddAll \/ Clear

SpecCfg == InitCfg /\ [][NextCfg]_vars

\* ------------------------------------------------ _ConcurrentCoordinator
\* An identifier: a Python value with its type and its text.
Id(t, text) == [t |-> t, text |-> text]

\* bool(id): 0 and "" are falsy.
truthy(id) == ~(id.t = "int" /\ id.text = "0") /\ ~(id.t = "str" /\ id.text = "")

\* str(item_id)
Str(id) == id.text

Ids == {Id("int", "1"), Id("str", "1"), Id("int", "2"), Id("int", "0")}

Items == {[id |-> id] : id \in Ids}

ItemLists == SeqsUpTo(Items, MaxItems)

\* str(item)[:50]: PinterestMedia.__str__ starts with the class name and src,
\* not with the id; the items have no url attribute.
StrOfItem == Id("str", "PinterestMedia(src: ")

\* getattr(item, "id", None) or getattr(item, "url", str(item)[:50])
item_id(item) == IF truthy(item.id) THEN item.id ELSE StrOfItem

\* errors[str(item_id)] = (item_id, e): an existing key keeps its place.
put_error(errs, id, e) ==
    LET entry == [key |-> Str(id), item_id |-> id, err |-> e]
    IN  IF \E j \in 1..Len(errs) : errs[j].key = Str(id)
        THEN [j \in 1..Len(errs) |-> IF errs[j].key = Str(id) THEN entry ELSE errs[j]]
        ELSE Append(errs, entry)

\* DownloadError("Failed to download {len(errors)} out of {total} items:" ...)
DownloadError(errs, total) ==
    [exc |-> "DownloadError", list |-> <<>>, k |-> Len(errs), total |-> total,
     lines |-> [j \in 1..Len(errs) |-> <<errs[j].item_id, errs[j].err>>], err |-> 0]

\* The exception of the worker of item i, re-raised as it is.
WorkerError(i) ==
    [exc |-> "WorkerError", list |-> <<>>, k |-> 0, total |-> 0, lines |-> <<>>, err |-> i]

\* [r for r in results if r is not None]
compact(rs) == SelectSeq(rs, LAMBDA r : r # None)

Returns(rs) ==
    [exc |-> "none", list |-> compact(rs), k |-> 0, total |-> 0, lines |-> <<>>, err |-> 0]

\* MediaDownloader.download returned None as well.
WorkerValuesWithNone(who, i) == {None, i}

\* What the worker of item i may return: i stands for the value (the path)
\* its own call produced.  MediaDownloader.download always returns a Path.
WorkerValues(who, i) == IF who = "download_media" THEN {i} ELSE {None, i}

\* The flag left out: every failure cancels.
AfterFailureAlwaysCancel(ff) == "cancel"

\* if fail_fast: cancel the others and raise; else go on with the loop.
AfterFailure(ff) == IF ff THEN "cancel" ELSE "loop"

\* done is not counted up.
NextDoneStuck(d) == d

\* done += 1
NextDone(d) == d + 1

\* for item, path in zip(media, local_paths): item.set_local_path(path)
zip_paths(paths, local_paths) ==
    [i \in 1..Len(paths) |-> IF i <= Len(local_paths) THEN local_paths[i] ELSE paths[i]]

FetchIdle ==
    /\ kind = "pin"
    /\ num = 0
    /\ bookmarksCount = ScrapeBookmarks
    /\ pc = "idle"
    /\ target = 0
    /\ remains = 0
    /\ images = <<>>
    /\ bookmarks = BookmarkManager(ScrapeBookmarks)
    /\ batch_size = 0
    /\ difference = 0
    /\ result = <<>>
    /\ endSeen = FALSE
    /\ interrupted = FALSE
    /\ rejected = FALSE
    /\ last = NoRequest
    /\ lastMain = MainBatch(FALSE, FALSE, 0, FALSE)
    /\ gaps = 0
    /\ cs = BookmarkManager(0)

Callers == {<<"run", TRUE>>, <<"run", FALSE>>, <<"download_media", FALSE>>}

InitCo ==
    /\ FetchIdle
    /\ ScrIdle
    /\ CfgIdle
    /\ DlIdle
    /\ HlsIdle
    /\ StreamIdle
    /\ ScrIdle
    /\ items \in ItemLists
    /\ \E c \in Callers : caller = c[1] /\ fail_fast = c[2]
    /\ max_workers \in 1..MaxWorkers
    /\ coPc = "start"
    /\ fut = <<>>
    /\ value = <<>>
    /\ invoked = <<>>
    /\ seen = {}
    /\ results = <<>>
    /\ errors = <<>>
    /\ done = 0
    /\ calls = <<>>
    /\ cancelIdx = 0
    /\ cur = 0
    /\ pendingAtFail = {}
    /\ outcome = NoOutcome
    /\ local_path = [i \in 1..Len(items) |-> None]

total == Len(items)

Running_(f) == {i \in 1..Len(f) : f[i] = "running"}

Pending(f) == {i \in 1..Len(f) : f[i] = "pending"}

\* run up to as_completed: results = [None] * total, every item submitted.
Submit ==
    /\ coPc = "start"
    /\ coPc' = "loop"
    /\ fut' = [i \in 1..total |-> "pending"]
    /\ value' = [i \in 1..total |-> None]
    /\ invoked' = [i \in 1..total |-> 0]
    /\ results' = [i \in 1..total |-> None]
    /\ UNCHANGED <<items, fail_fast, max_workers, caller, seen, errors, done, calls,
                   cancelIdx, cur, pendingAtFail, outcome, local_path>>
    /\ UNCHANGED <<fetchVars, cs, scrVars, cfgVars, dlVars, hlsVars, streamVars>>

\* A free thread of the pool takes the oldest work item that was not
\* cancelled and calls worker for it.
Start ==
    /\ coPc \in {"loop", "cancel", "exit"}
    /\ Cardinality(Running_(fut)) < max_workers
    /\ \E i \in Pending(fut) :
         /\ \A j \in Pending(fut) : i <= j
         /\ fut' = [fut EXCEPT ![i] = "running"]
         /\ invoked' = [invoked EXCEPT ![i] = @ + 1]
    /\ UNCHANGED <<items, fail_fast, max_workers, caller, coPc, value, seen, results,
                   errors, done, calls, cancelIdx, cur, pendingAtFail, outcome,
                   local_path>>
    /\ UNCHANGED <<fetchVars, cs, scrVars, cfgVars, dlVars, hlsVars, streamVars>>

\* A worker returns or raises.
Complete ==
    /\ coPc \in {"loop", "cancel", "exit"}
    /\ \E i \in Running_(fut) :
         \/ \E v \in WorkerValues(caller, i) :
               /\ fut' = [fut EXCEPT ![i] = "finished"]
               /\ value' = [value EXCEPT ![i] = v]
         \/ /\ fut' = [fut EXCEPT ![i] = "failed"]
            /\ UNCHANGED value
    /\ UNCHANGED <<items, fail_fast, max_workers, caller, coPc, invoked, seen, results,
                   errors, done, calls, cancelIdx, cur, pendingAtFail, outcome,
                   local_path>>
    /\ UNCHANGED <<fetchVars, cs, scrVars, cfgVars, dlVars, hlsVars, streamVars>>

\* One pass of the as_completed loop, up to the cancelling loop if there is one.
Observe ==
    /\ coPc = "loop"
    /\ \E i \in (1..total) \ seen :
         /\ fut[i] \in {"finished", "failed"}
         /\ seen' = seen \cup {i}
         /\ IF fut[i] = "finished"
            THEN /\ results' = [results EXCEPT ![i] = value[i]]
                 /\ done' = NextDone(done)
                 /\ calls' = Append(calls, <<done', total>>)
                 /\ UNCHANGED <<errors, coPc, cancelIdx, cur, pendingAtFail>>
            ELSE /\ errors' = put_error(errors, item_id(items[i]), i)
                 /\ coPc' = AfterFailure(fail_fast)
                 /\ UNCHANGED results
                 /\ IF coPc' = "cancel"
                    THEN /\ cancelIdx' = 1
                         /\ cur' = i
                         /\ pendingAtFail' = Pending(fut)
                         /\ UNCHANGED <<done, calls>>
                    ELSE /\ done' = NextDone(done)
                         /\ calls' = Append(calls, <<done', total>>)
                         /\ UNCHANGED <<cancelIdx, cur, pendingAtFail>>
    /\ UNCHANGED <<items, fail_fast, max_workers, caller, fut, value, invoked, outcome,
                   local_path>>
    /\ UNCHANGED <<fetchVars, cs, scrVars, cfgVars, dlVars, hlsVars, streamVars>>

\* for f in future_to_meta: if not f.done(): f.cancel() - one future; cancel
\* has no effect on a running one.
CancelStep ==
    /\ coPc = "cancel"
    /\ cancelIdx <= total
    /\ fut' = IF fut[cancelIdx] = "pending"
              THEN [fut EXCEPT ![cancelIdx] = "cancelled"] ELSE fut
    /\ cancelIdx' = cancelIdx + 1
    /\ UNCHANGED <<items, fail_fast, max_workers, caller, coPc, value, invoked, seen,
                   results, errors, done, calls, cur, pendingAtFail, outcome,
                   local_path>>
    /\ UNCHANGED <<fetchVars, cs, scrVars, cfgVars, dlVars, hlsVars, streamVars>>

\* raise, through finally (done += 1, report) into the executor's __exit__.
Reraise ==
    /\ coPc = "cancel"
    /\ cancelIdx > total
    /\ done' = NextDone(done)
    /\ calls' = Append(calls, <<done', total>>)
    /\ coPc' = "exit"
    /\ UNCHANGED <<items, fail_fast, max_workers, caller, fut, value, invoked, seen,
                   results, errors, cancelIdx, cur, pendingAtFail, outcome,
                   local_path>>
    /\ UNCHANGED <<fetchVars, cs, scrVars, cfgVars, dlVars, hlsVars, streamVars>>

\* The with block is left once every thread of the pool is done: the
\* exception goes on, or the errors are raised as one, or the results returned.
Leave ==
    /\ \/ coPc = "exit"
       \/ coPc = "loop" /\ seen = 1..total
    /\ Running_(fut) = {}
    /\ Pending(fut) = {}
    /\ IF coPc = "exit"
       THEN coPc' = "raised" /\ outcome' = WorkerError(cur)
       ELSE IF errors # <<>>
       THEN coPc' = "raised" /\ outcome' = DownloadError(errors, total)
       ELSE coPc' = "returned" /\ outcome' = Returns(results)
    /\ UNCHANGED <<items, fail_fast, max_workers, caller, fut, value, invoked, seen,
                   results, errors, done, calls, cancelIdx, cur, pendingAtFail,
                   local_path>>
    /\ UNCHANGED <<fetchVars, cs, scrVars, cfgVars, dlVars, hlsVars, streamVars>>

\* download_media after download_concurrent returned.
WriteBack ==
    /\ coPc = "returned"
    /\ caller = "download_media"
    /\ local_path' = zip_paths(local_path, outcome.list)
    /\ coPc' = "written"
    /\ UNCHANGED <<items, fail_fast, max_workers, caller, fut, value, invoked, seen,
                   results, errors, done, calls, cancelIdx, cur, pendingAtFail,
                   outcome>>
    /\ UNCHANGED <<fetchVars, cs, scrVars, cfgVars, dlVars, hlsVars, streamVars>>

NextCo == Submit \/ Start \/ Complete \/ Observe \/ CancelStep \/ Reraise \/ Leave \/ WriteBack

SpecCo == InitCo /\ [][NextCo]_vars

\* ------------------------------------------------ MediaDownloader.download
\* A URL is the sequence of its pieces: "/" and "." are themselves, any other
\* piece is a run of characters holding neither.
Url(pieces) == <<"https:", "/", "/", "i", "/">> \o pieces

Urls == {Url(<<"v">>), Url(<<"v", ".", "jpg">>), Url(<<"v", ".", "JPG">>),
         Url(<<".", "jpg">>), Url(<<"v", ".">>), Url(<<"v", ".", "mp4">>),
         Url(<<"v", ".", "MP4">>), Url(<<".", "mp4">>), Url(<<"v", ".", "m3u8">>),
         Url(<<"v", ".", "mp4", ".", "m3u8">>)}

RECURSIVE LastIndexOf(_, _, _)
LastIndexOf(seq, x, i) ==
    IF i = 0 THEN 0 ELSE IF seq[i] = x THEN i ELSE LastIndexOf(seq, x, i - 1)

\* Path(url).name: what follows the last "/".
name_of(url) == SubSeq(url, LastIndexOf(url, "/", Len(url)) + 1, Len(url))

\* Path(url).suffix: the name from its last "." on, unless that dot is the
\* first or the last character of the name.
suffix(url) ==
    LET name == name_of(url)
        i == LastIndexOf(name, ".", Len(name))
    IN  IF 1 < i /\ i < Len(name) THEN SubSeq(name, i, Len(name)) ELSE <<>>

\* str.lower(), piece by piece
lower_piece(c) == IF c = "JPG" THEN "jpg" ELSE IF c = "MP4" THEN "mp4" ELSE c

lower(str) == [i \in 1..Len(str) |-> lower_piece(str[i])]

\* output_dir / f"{pin_media.id}"
media_base(id) == [dir |-> "output_dir", stem |-> id, suffix |-> <<>>]

\* Path.with_suffix on a name without a suffix
with_suffix(path, ext) == [path EXCEPT !.suffix = ext]

\* The flag ignored: a stream is always preferred.
prefers_stream_always(flag, video_stream) == video_stream # NoStream

\* download_streams and pin_media.video_stream
prefers_stream(flag, video_stream) == flag /\ video_stream # NoStream

Plan(b, st, r) == [blob |-> b, streams |-> st, ret |-> r]

streams_output_mp4(path, skip) == with_suffix(path, <<".", "mp4">>)

\* HttpClient.download_streams returns output_path with .ts or .mp4.
streams_output(path, skip) ==
    IF skip THEN with_suffix(path, <<".", "ts">>) ELSE with_suffix(path, <<".", "mp4">>)

\* MediaDownloader.download: the calls it makes and the path it returns.
download(media, flag, skip) ==
    LET base == media_base(media.id) IN
    IF prefers_stream(flag, media.video_stream)
    THEN LET stream_url == media.video_stream
             target_path == with_suffix(base, <<".", "mp4">>)
         IN  IF lower(suffix(stream_url)) = <<".", "mp4">>
             THEN Plan(<<stream_url, target_path>>, <<>>, target_path)
             ELSE Plan(<<>>, <<stream_url, target_path, skip>>,
                       streams_output(target_path, skip))
    ELSE LET image_url == media.src
             ext0 == lower(suffix(image_url))
             ext == IF ext0 = <<>> THEN <<".", "jpg">> ELSE ext0
             image_path == with_suffix(base, ext)
         IN  Plan(<<image_url, image_path>>, <<>>, image_path)

InitDl ==
    /\ FetchIdle
    /\ ScrIdle
    /\ CfgIdle
    /\ CoIdle
    /\ HlsIdle
    /\ StreamIdle
    /\ ScrIdle
    /\ pin_media \in [id : 1..MaxMediaId, src : Urls, video_stream : Urls \cup {NoStream}]
    /\ download_streams \in BOOLEAN
    /\ skip_remux \in BOOLEAN
    /\ dlPc = "call"
    /\ blob = <<>>
    /\ streams = <<>>
    /\ ret = <<>>

\* One call of download; the transfer it starts succeeds or raises.
Download ==
    /\ dlPc = "call"
    /\ LET p == download(pin_media, download_streams, skip_remux)
       IN  /\ blob' = p.blob
           /\ streams' = p.streams
           /\ \E ok \in BOOLEAN :
                IF ok THEN dlPc' = "returned" /\ ret' = p.ret
                ELSE dlPc' = "raised" /\ UNCHANGED ret
    /\ UNCHANGED <<pin_media, download_streams, skip_remux>>
    /\ UNCHANGED <<fetchVars, cs, scrVars, cfgVars, coVars, hlsVars, streamVars>>

NextDl == Download

SpecDl == InitDl /\ [][NextDl]_vars

\* ------------------------------------------- HlsProcessor.resolve_variant
\* The bandwidth a sub-playlist reports; NoBandwidth: none, or 0.
NoBandwidth == 0

Bandwidths == {NoBandwidth, 200000, 500000, 800000}

VariantNames == <<"a.m3u8", "b.m3u8", "c.m3u8", "d.m3u8">>

\* The n-th sub-playlist; its uri is absolute or relative to the master playlist.
Variant(absolute, n, bandwidth) ==
    [uri |-> [absolute |-> absolute, name |-> VariantNames[n]], bandwidth |-> bandwidth]

RECURSIVE PlaylistsOfLen(_)
PlaylistsOfLen(n) ==
    IF n = 0 THEN {<<>>}
    ELSE {Append(pl, Variant(a, n, b)) :
            pl \in PlaylistsOfLen(n - 1), a \in BOOLEAN, b \in Bandwidths}

Playlists == UNION {PlaylistsOfLen(n) : n \in 0..MaxVariants}

\* urljoin(base_uri, uri)
urljoin(base_uri, uri) == IF uri.absolute THEN <<uri.name>> ELSE <<base_uri, uri.name>>

\* max(seq, key=...): the first element whose key no other exceeds.
max_by_bandwidth(seq) ==
    LET i == CHOOSE i \in 1..Len(seq) :
                 /\ \A j \in 1..Len(seq) : seq[j].bandwidth <= seq[i].bandwidth
                 /\ \A j \in 1..(i - 1) : seq[j].bandwidth < seq[i].bandwidth
    IN  seq[i]

\* HlsProcessor.resolve_variant: max() of an empty sequence raises ValueError.
resolve_variant(playlists, base_uri) ==
    IF playlists = <<>>
    THEN [exc |-> "HlsDownloadError", url |-> <<>>]
    ELSE LET candidates == SelectSeq(playlists, LAMBDA p : p.bandwidth # NoBandwidth)
         IN  IF candidates = <<>>
             THEN [exc |-> "ValueError", url |-> <<>>]
             ELSE [exc |-> "none", url |-> urljoin(base_uri, max_by_bandwidth(candidates).uri)]

InitHls ==
    /\ FetchIdle
    /\ ScrIdle
    /\ CfgIdle
    /\ CoIdle
    /\ DlIdle
    /\ StreamIdle
    /\ ScrIdle
    /\ playlist \in Playlists
    /\ hlsPc = "call"
    /\ resolved = [exc |-> "none", url |-> <<>>]

Resolve ==
    /\ hlsPc = "call"
    /\ resolved' = resolve_variant(playlist, "base")
    /\ hlsPc' = "resolved"
    /\ UNCHANGED playlist
    /\ UNCHANGED <<fetchVars, cs, scrVars, cfgVars, coVars, dlVars, streamVars>>

NextHls == Resolve

SpecHls == InitHls /\ [][NextHls]_vars

\* ------------------------- HlsProcessor.enumerate_segments and decrypt
MediaSequences == {0, 100, 255, 65535}

SegNames == {"a.ts", "b.ts"}

\* SegmentInfo.method of a segment without a key.
NoMethod == "None"

\* The IV attribute of a key as the playlist spells it: "0x" or "0X", then 32
\* hexadecimal digits.
IvLowerCase == <<"0", "x", "1", "2", "3", "4", "5", "6", "7", "8", "9", "0", "a", "b", "c", "d", "e", "f", "1", "2", "3", "4", "5", "6", "7", "8", "9", "0", "a", "b", "c", "d", "e", "f">>

IvUpperCase == <<"0", "X", "A", "0", "B", "1", "C", "2", "D", "3", "E", "4", "F", "5", "0", "6", "1", "7", "2", "8", "3", "9", "4", "A", "5", "B", "6", "C", "7", "D", "8", "E", "9", "F">>

IvTexts == {<<>>, IvLowerCase, IvUpperCase}

\* segment.key: <<>> when the segment has none, else one key with its method,
\* its uri (<<>> when it has none) and its iv text (<<>> when it has none).
SegmentKeys ==
    {<<>>}
    \cup {<<[method |-> "AES-128", uri |-> <<[absolute |-> FALSE, name |-> "key.php"]>>, iv |-> t]>> :
            t \in IvTexts}
    \cup {<<[method |-> "SAMPLE-AES", uri |-> <<[absolute |-> FALSE, name |-> "key.php"]>>, iv |-> <<>>]>>,
          <<[method |-> "NONE", uri |-> <<>>, iv |-> <<>>]>>,
          <<[method |-> "AES-128", uri |-> <<>>, iv |-> <<>>]>>}

PlaylistSegments ==
    {[uri |-> [absolute |-> FALSE, name |-> n], key |-> k] : n \in SegNames, k \in SegmentKeys}

MediaPlaylists ==
    {[media_sequence |-> ms, segments |-> segs] :
        ms \in MediaSequences, segs \in SeqsUpTo(PlaylistSegments, MaxSegments)}

\* str.lower() on the characters an IV text can hold.
UpperCase == <<"A", "B", "C", "D", "E", "F", "X">>

LowerCase == <<"a", "b", "c", "d", "e", "f", "x">>

str_lower(text) ==
    [i \in 1..Len(text) |->
        IF \E k \in 1..Len(UpperCase) : UpperCase[k] = text[i]
        THEN LowerCase[CHOOSE k \in 1..Len(UpperCase) : UpperCase[k] = text[i]]
        ELSE text[i]]

\* str.replace("0x", ""): every occurrence, left to right.
RECURSIVE replace_0x(_)
replace_0x(text) ==
    IF Len(text) < 2 THEN text
    ELSE IF text[1] = "0" /\ text[2] = "x" THEN replace_0x(Tail(Tail(text)))
    ELSE <<text[1]>> \o replace_0x(Tail(text))

HexDigits == <<"0", "1", "2", "3", "4", "5", "6", "7", "8", "9", "a", "b", "c", "d", "e", "f">>

hex_value(c) == (CHOOSE i \in 1..Len(HexDigits) : HexDigits[i] = c) - 1

\* bytes.fromhex raises ValueError on an odd number of digits or a non-digit.
fromhex_raises(text) ==
    \/ Len(text) % 2 = 1
    \/ \E i \in 1..Len(text) : \A k \in 1..Len(HexDigits) : HexDigits[k] # text[i]

RECURSIVE fromhex(_)
fromhex(text) ==
    IF text = <<>> THEN <<>>
    ELSE <<hex_value(text[1]) * 16 + hex_value(text[2])>> \o fromhex(Tail(Tail(text)))

\* int.to_bytes(length, "big")
RECURSIVE to_bytes_big(_, _)
to_bytes_big(n, length) ==
    IF length = 0 THEN <<>> ELSE Append(to_bytes_big(n \div 256, length - 1), n % 256)

compute_default_iv_little_endian(media_sequence, segment_index) ==
    [k \in 1..16 |-> to_bytes_big(media_sequence + segment_index, 16)[17 - k]]

\* HlsProcessor._compute_default_iv
compute_default_iv(media_sequence, segment_index) ==
    to_bytes_big(media_sequence + segment_index, 16)

SegmentInfo(index, uri, method, key_uri, iv, media_sequence) ==
    [index |-> index, uri |-> uri, method |-> method, key_uri |-> key_uri,
     iv |-> iv, media_sequence |-> media_sequence]

\* What the body of the loop of enumerate_segments raises on one segment.
segment_exc_any_key(segment) ==
    IF segment.key = <<>> THEN "none"
    ELSE LET key_info == segment.key[1] IN
         IF key_info.method # "AES-128" THEN "Unsupported encryption method"
         ELSE IF key_info.iv # <<>> /\ fromhex_raises(replace_0x(str_lower(key_info.iv)))
         THEN "ValueError"
         ELSE "none"

segment_exc(segment) ==
    IF segment.key = <<>> THEN "none"
    ELSE LET key_info == segment.key[1] IN
         IF key_info.method # "AES-128" THEN "Unsupported encryption method"
         ELSE IF key_info.uri = <<>> THEN "Encrypted segment without key URI"
         ELSE IF key_info.iv # <<>> /\ fromhex_raises(replace_0x(str_lower(key_info.iv)))
         THEN "ValueError"
         ELSE "none"

\* The SegmentInfo the body of the loop appends for the segment at idx.
segment_info(pl, base_uri, idx) ==
    LET segment == pl.segments[idx + 1]
        seg_url == urljoin(base_uri, segment.uri)
    IN  IF segment.key = <<>>
        THEN SegmentInfo(idx, seg_url, NoMethod, <<>>, <<>>, pl.media_sequence)
        ELSE LET key_info == segment.key[1]
                 key_uri  == IF key_info.uri = <<>> THEN <<>>
                             ELSE urljoin(base_uri, key_info.uri[1])
                 iv_bytes == IF key_info.iv # <<>>
                             THEN fromhex(replace_0x(str_lower(key_info.iv)))
                             ELSE compute_default_iv(pl.media_sequence, idx)
             IN  SegmentInfo(idx, seg_url, key_info.method, key_uri, iv_bytes,
                             pl.media_sequence)

\* HlsProcessor.enumerate_segments: the first segment whose body raises ends
\* the call.
enumerate_segments(pl, base_uri) ==
    IF pl.segments = <<>>
    THEN [exc |-> "Playlist has no segments", infos |-> <<>>]
    ELSE IF \E i \in 1..Len(pl.segments) : segment_exc(pl.segments[i]) # "none"
    THEN LET i == CHOOSE i \in 1..Len(pl.segments) :
                      /\ segment_exc(pl.segments[i]) # "none"
                      /\ \A j \in 1..(i - 1) : segment_exc(pl.segments[j]) = "none"
         IN  [exc |-> segment_exc(pl.segments[i]), infos |-> <<>>]
    ELSE [exc |-> "none",
          infos |-> [i \in 1..Len(pl.segments) |-> segment_info(pl, base_uri, i - 1)]]

\* HlsProcessor.decrypt up to the call of _aes128_decrypt: the key it asks the
\* KeyCache for and the iv it passes, <<>> for both when the segment is clear.
decrypt(segment) ==
    IF segment.method = NoMethod
    THEN [index |-> segment.index, exc |-> "none", key_uri |-> <<>>, iv |-> <<>>]
    ELSE IF segment.method # "AES-128"
    THEN [index |-> segment.index, exc |-> "Unsupported method",
          key_uri |-> <<>>, iv |-> <<>>]
    ELSE IF segment.key_uri = <<>>
    THEN [index |-> segment.index, exc |-> "Missing key URI for decryption",
          key_uri |-> <<>>, iv |-> <<>>]
    ELSE [index |-> segment.index, exc |-> "none", key_uri |-> segment.key_uri,
          iv |-> IF segment.iv # <<>> THEN segment.iv
                 ELSE compute_default_iv(segment.media_sequence, segment.index)]

InitSeg ==
    /\ FetchIdle
    /\ ScrIdle
    /\ CfgIdle
    /\ CoIdle
    /\ DlIdle
    /\ HlsIdle
    /\ RtIdle
    /\ KcIdle
    /\ StIdle
    /\ m3u8 \in MediaPlaylists
    /\ segPc = "call"
    /\ segments = <<>>
    /\ segExc = "none"
    /\ decrypted = <<>>

Enumerate ==
    /\ segPc = "call"
    /\ LET r == enumerate_segments(m3u8, "base") IN
        /\ segments' = r.infos
        /\ segExc' = r.exc
        /\ segPc' = IF r.exc = "none" THEN "returned" ELSE "raised"
    /\ UNCHANGED <<m3u8, decrypted>>
    /\ UNCHANGED <<fetchVars, cs, scrVars, cfgVars, coVars, dlVars, hlsVars, rtVars, kcVars, stVars>>

\* data = self.hls_processor.decrypt(segment, raw), segment after segment
Decrypt ==
    /\ segPc = "returned"
    /\ Len(decrypted) < Len(segments)
    /\ decrypted' = Append(decrypted, decrypt(segments[Len(decrypted) + 1]))
    /\ UNCHANGED <<m3u8, segPc, segments, segExc>>
    /\ UNCHANGED <<fetchVars, cs, scrVars, cfgVars, coVars, dlVars, hlsVars, rtVars, kcVars, stVars>>

NextSeg == Enumerate \/ Decrypt

SpecSeg == InitSeg /\ [][NextSeg]_vars

\* ------------------------------------------ HlsProcessor.download_segment
\* What one self.session.get(url, timeout=...) does: a response with its
\* status and body, or a requests.RequestException.
Responses ==
    {[exc |-> "none", status_code |-> 200, content |-> b] : b \in {"bytes1", "bytes2"}}
    \cup {[exc |-> "none", status_code |-> c, content |-> "error page"] : c \in {404, 503}}
    \cup {[exc |-> e, status_code |-> 0, content |-> ""] : e \in {"Timeout", "ConnectionError"}}

\* last_exc after a request that did not answer 200
failure(resp) ==
    IF resp.exc # "none"
    THEN [type |-> resp.exc, status_code |-> 0]
    ELSE [type |-> "HlsDownloadError", status_code |-> resp.status_code]

in_range_one_more(attempt, retries) == attempt <= retries + 1

\* attempt in range(1, self.max_retries + 1)
in_range(attempt, retries) == attempt <= retries

InitRt ==
    /\ FetchIdle
    /\ ScrIdle
    /\ CfgIdle
    /\ CoIdle
    /\ DlIdle
    /\ HlsIdle
    /\ SegIdle
    /\ KcIdle
    /\ StIdle
    /\ max_retries \in 0..MaxRetries
    /\ rtPc = "loop"
    /\ responses = <<>>
    /\ last_exc = NoExc
    /\ content = ""

\* One turn of the loop: the request of attempt Len(responses) + 1.
Get ==
    /\ rtPc = "loop"
    /\ in_range(Len(responses) + 1, max_retries)
    /\ \E resp \in Responses :
        /\ responses' = Append(responses, resp)
        /\ IF resp.exc = "none" /\ resp.status_code = 200
           THEN /\ rtPc' = "returned"
                /\ content' = resp.content
                /\ UNCHANGED last_exc
           ELSE /\ last_exc' = failure(resp)
                /\ UNCHANGED <<rtPc, content>>
    /\ UNCHANGED max_retries
    /\ UNCHANGED <<fetchVars, cs, scrVars, cfgVars, coVars, dlVars, hlsVars, segVars, kcVars, stVars>>

\* The loop is over: raise HlsDownloadError(... Last error: {last_exc})
GiveUp ==
    /\ rtPc = "loop"
    /\ ~in_range(Len(responses) + 1, max_retries)
    /\ rtPc' = "raised"
    /\ UNCHANGED <<max_retries, responses, last_exc, content>>
    /\ UNCHANGED <<fetchVars, cs, scrVars, cfgVars, coVars, dlVars, hlsVars, segVars, kcVars, stVars>>

NextRt == Get \/ GiveUp

SpecRt == InitRt /\ [][NextRt]_vars

\* ------------------------------------------------------------ KeyCache.get
KeyUrls == {"k1.key", "k2.key"}

Getters == 1..MaxGetters

\* The key a url names: the key server answers a url with the same bytes
\* every time it answers with status 200.
key_of(url) == IF url = "k1.key" THEN "key1" ELSE "key2"

\* What one self._session.get(url, timeout=...) does.
KeyResponses(url) ==
    {[exc |-> "none", status_code |-> 200, content |-> key_of(url)],
     [exc |-> "none", status_code |-> 404, content |-> "error page"],
     [exc |-> "Timeout", status_code |-> 0, content |-> ""]}

cached_never(c, url) == FALSE

\* url in self._cache
cached(c, url) == c[url] # <<>>

\* A thread outside get: pc "idle"; in the loop of get: "loop", after attempt
\* requests; after get: "returned" with ret, or "raised". before: the keys that
\* calls of get for url had returned when this call began.
IdleGetter ==
    [pc |-> "idle", url |-> "", attempt |-> 0, ret |-> "", before |-> {}]

InitKc ==
    /\ FetchIdle
    /\ ScrIdle
    /\ CfgIdle
    /\ CoIdle
    /\ DlIdle
    /\ HlsIdle
    /\ SegIdle
    /\ RtIdle
    /\ StIdle
    /\ key_retries \in 0..MaxRetries
    /\ cache = [u \in KeyUrls |-> <<>>]
    /\ getter = [w \in Getters |-> IdleGetter]
    /\ gets = 0
    /\ downloads = [u \in KeyUrls |-> 0]
    /\ returned = [u \in KeyUrls |-> {}]

kcFrame == <<fetchVars, cs, scrVars, cfgVars, coVars, dlVars, hlsVars, segVars, rtVars, stVars>>

\* A thread calls get(url): if url in self._cache: return self._cache[url]
GetCall(w, url) ==
    /\ getter[w].pc \in {"idle", "returned", "raised"}
    /\ gets < MaxGets
    /\ gets' = gets + 1
    /\ IF cached(cache, url)
       THEN /\ getter' = [getter EXCEPT ![w] =
                            [pc |-> "returned", url |-> url, attempt |-> 0,
                             ret |-> cache[url][1], before |-> returned[url]]]
            /\ returned' = [returned EXCEPT ![url] = @ \cup {cache[url][1]}]
       ELSE /\ getter' = [getter EXCEPT ![w] =
                            [pc |-> "loop", url |-> url, attempt |-> 0,
                             ret |-> "", before |-> returned[url]]]
            /\ UNCHANGED returned
    /\ UNCHANGED <<key_retries, cache, downloads>>
    /\ UNCHANGED kcFrame

\* One turn of the loop of get: a request, and on status 200 the store into
\* self._cache and the return.
GetRequest(w) ==
    /\ getter[w].pc = "loop"
    /\ in_range(getter[w].attempt + 1, key_retries)
    /\ \E resp \in KeyResponses(getter[w].url) :
        LET url == getter[w].url IN
        IF resp.exc = "none" /\ resp.status_code = 200
        THEN /\ cache' = [cache EXCEPT ![url] = <<resp.content>>]
             /\ getter' = [getter EXCEPT ![w].pc = "returned",
                                         ![w].attempt = @ + 1,
                                         ![w].ret = resp.content]
             /\ downloads' = [downloads EXCEPT ![url] = @ + 1]
             /\ returned' = [returned EXCEPT ![url] = @ \cup {resp.content}]
        ELSE /\ getter' = [getter EXCEPT ![w].attempt = @ + 1]
             /\ UNCHANGED <<cache, downloads, returned>>
    /\ UNCHANGED <<key_retries, gets>>
    /\ UNCHANGED kcFrame

\* The loop of get is over: raise HlsDownloadError
GetGiveUp(w) ==
    /\ getter[w].pc = "loop"
    /\ ~in_range(getter[w].attempt + 1, key_retries)
    /\ getter' = [getter EXCEPT ![w].pc = "raised"]
    /\ UNCHANGED <<key_retries, cache, gets, downloads, returned>>
    /\ UNCHANGED kcFrame

NextKc ==
    \/ \E w \in Getters, url \in KeyUrls : GetCall(w, url)
    \/ \E w \in Getters : GetRequest(w)
    \/ \E w \in Getters : GetGiveUp(w)

SpecKc == InitKc /\ [][NextKc]_vars

\* --------------------------------------------- HttpClient.download_streams
OutputPaths == {media_base(1), with_suffix(media_base(1), <<".", "mp4">>)}

Streams ==
    [is_variant : BOOLEAN, segments : 0..MaxSegments, output_path : OutputPaths,
     skip_remux : BOOLEAN]

Digits == <<"0", "1", "2", "3", "4", "5", "6", "7", "8", "9">>

\* f"{index:05d}" of an index below 100000: five digits, zeros in front
pad5(index) == [k \in 1..5 |-> Digits[((index \div (10 ^ (5 - k))) % 10) + 1]]

\* temp_dir / f"segment_{index:05d}.ts"
segment_path(index) == [dir |-> "td", name |-> <<"segment_">> \o pad5(index) \o <<".ts">>]

\* temp_dir / "concat_list.txt"
concat_list == [dir |-> "td", name |-> <<"concat_list.txt">>]

\* One call on self.hls_processor: index is the segment's, -1 when the call
\* is not about one segment; ok is whether it returned.
Call(op, index, args, ok) == [op |-> op, index |-> index, args |-> args, ok |-> ok]

\* What decrypt returned for the segment at index, written to its file.
data(index) == [segment |-> index]

build_concat_list_reversed(paths) == [i \in 1..Len(paths) |-> paths[Len(paths) + 1 - i]]

\* HlsProcessor.build_concat_list: one line per path, in the order of the list.
build_concat_list(paths) == [i \in 1..Len(paths) |-> paths[i]]

\* The content of the file at path in the temporary directory.
content_of(files, path) == (CHOOSE f \in files : f.path = path).content

\* HlsProcessor.concat_to_ts: the bytes of the segment files, one after the
\* other in the order of the list.
RECURSIVE concat_to_ts(_, _)
concat_to_ts(paths, files) ==
    IF paths = <<>> THEN <<>>
    ELSE content_of(files, Head(paths)) \o concat_to_ts(Tail(paths), files)

\* What an ffmpeg process does: its exit code and what it wrote to stderr.
Procs(log) == {[returncode |-> c, stderr |-> log] : c \in {0, 1}}

\* HlsProcessor._run_cmd: a non-zero exit code raises HlsDownloadError with
\* the end of the process's stderr.
run_cmd(proc, phase) ==
    IF proc.returncode # 0
    THEN [exc |-> "HlsDownloadError", phase |-> phase, stderr |-> {proc.stderr}, context |-> {}]
    ELSE NoError

\* HlsProcessor.remux_to_mp4: one ffmpeg run that copies the streams.
remux_to_mp4(proc) == run_cmd(proc, "remux to mp4")

\* HlsProcessor.reencode_to_mp4: one ffmpeg run that re-encodes.
reencode_to_mp4(proc) == run_cmd(proc, "re-encode to mp4")

caught_nothing(error) == FALSE

\* except Exception:
caught(error) == error.exc # "none"

\* An exception raised while another is handled has that one as __context__.
raised_in_handler(error, handled) == [error EXCEPT !.context = {handled.stderr}]

cleanup_skipped(td) == td

\* TemporaryDirectory.__exit__: the directory and everything in it is removed.
cleanup(td) == IF td.state = "exists" THEN [state |-> "removed", files |-> {}] ELSE td

Failure(what) == [exc |-> what, phase |-> "", stderr |-> {}, context |-> {}]

exhausted_after_one(paths, n) == Len(paths) >= Min(n, 1)

\* for index, segment in iterator: the loop is over when every one of the n
\* segments has had its turn, each turn appending one path.
exhausted(paths, n) == Len(paths) = n

InitSt ==
    /\ FetchIdle
    /\ ScrIdle
    /\ CfgIdle
    /\ CoIdle
    /\ DlIdle
    /\ HlsIdle
    /\ SegIdle
    /\ RtIdle
    /\ KcIdle
    /\ stream \in Streams
    /\ stPc = "fetch_playlist"
    /\ trace = <<>>
    /\ temp_dir = NoTempDir
    /\ segment_paths = <<>>
    /\ written = {}
    /\ outcome_st = [ret |-> <<>>, error |-> NoError]

stFrame == <<fetchVars, cs, scrVars, cfgVars, coVars, dlVars, hlsVars, segVars, rtVars, kcVars>>

\* download_streams ends with an exception: the with block, if entered, is left.
Raise(call, error) ==
    /\ trace' = Append(trace, call)
    /\ stPc' = "raised"
    /\ outcome_st' = [ret |-> <<>>, error |-> error]
    /\ temp_dir' = cleanup(temp_dir)

\* download_streams returns path: the with block is left.
Return(call, path) ==
    /\ trace' = Append(trace, call)
    /\ stPc' = "returned"
    /\ outcome_st' = [ret |-> path, error |-> NoError]
    /\ temp_dir' = cleanup(temp_dir)

\* A call that returned, download_streams going on at pc.
Continue(call, at) ==
    /\ trace' = Append(trace, call)
    /\ stPc' = at
    /\ UNCHANGED outcome_st

\* playlist = self.hls_processor.fetch_playlist(url), for the url given and
\* for the variant resolved
FetchPlaylist ==
    /\ stPc \in {"fetch_playlist", "fetch_media_playlist"}
    /\ \/ /\ Continue(Call("fetch_playlist", -1, <<>>, TRUE),
                      IF stPc = "fetch_playlist" /\ stream.is_variant
                      THEN "resolve_variant" ELSE "enumerate_segments")
          /\ UNCHANGED temp_dir
       \/ Raise(Call("fetch_playlist", -1, <<>>, FALSE), Failure("HlsDownloadError"))
    /\ UNCHANGED <<stream, segment_paths, written>>
    /\ UNCHANGED stFrame

\* media_url = self.hls_processor.resolve_variant(playlist, base_uri)
ResolveVariant ==
    /\ stPc = "resolve_variant"
    /\ \/ /\ Continue(Call("resolve_variant", -1, <<>>, TRUE), "fetch_media_playlist")
          /\ UNCHANGED temp_dir
       \/ Raise(Call("resolve_variant", -1, <<>>, FALSE), Failure("HlsDownloadError"))
    /\ UNCHANGED <<stream, segment_paths, written>>
    /\ UNCHANGED stFrame

\* segments = self.hls_processor.enumerate_segments(playlist, base_uri): it
\* raises on a playlist without segments, and on a key it does not accept.
EnumerateSegments ==
    /\ stPc = "enumerate_segments"
    /\ \/ /\ stream.segments > 0
          /\ Continue(Call("enumerate_segments", -1, <<>>, TRUE), "with")
          /\ UNCHANGED temp_dir
       \/ Raise(Call("enumerate_segments", -1, <<>>, FALSE), Failure("HlsDownloadError"))
    /\ UNCHANGED <<stream, segment_paths, written>>
    /\ UNCHANGED stFrame

\* with tempfile.TemporaryDirectory() as td:
EnterTemp ==
    /\ stPc = "with"
    /\ temp_dir' = [state |-> "exists", files |-> {}]
    /\ stPc' = "download_segment"
    /\ UNCHANGED <<stream, trace, segment_paths, written, outcome_st>>
    /\ UNCHANGED stFrame

\* raw = self.hls_processor.download_segment(segment.uri)
DownloadSegment ==
    /\ stPc = "download_segment"
    /\ ~exhausted(segment_paths, stream.segments)
    /\ LET index == Len(segment_paths) IN
       \/ /\ Continue(Call("download_segment", index, <<>>, TRUE), "decrypt")
          /\ UNCHANGED temp_dir
       \/ Raise(Call("download_segment", index, <<>>, FALSE), Failure("HlsDownloadError"))
    /\ UNCHANGED <<stream, segment_paths, written>>
    /\ UNCHANGED stFrame

\* data = self.hls_processor.decrypt(segment, raw)
DecryptSegment ==
    /\ stPc = "decrypt"
    /\ LET index == Len(segment_paths) IN
       \/ /\ Continue(Call("decrypt", index, <<>>, TRUE), "write_segment_file")
          /\ UNCHANGED temp_dir
       \/ Raise(Call("decrypt", index, <<>>, FALSE), Failure("HlsDownloadError"))
    /\ UNCHANGED <<stream, segment_paths, written>>
    /\ UNCHANGED stFrame

\* self.hls_processor.write_segment_file(segment_path, data);
\* segment_paths.append(segment_path)
WriteSegment ==
    /\ stPc = "write_segment_file"
    /\ LET index == Len(segment_paths)
           path  == segment_path(index)
       IN  \/ /\ Continue(Call("write_segment_file", index, <<path>>, TRUE),
                          "download_segment")
              /\ temp_dir' = [temp_dir EXCEPT !.files =
                                 @ \cup {[path |-> path, content |-> <<data(index)>>]}]
              /\ segment_paths' = Append(segment_paths, path)
           \/ /\ Raise(Call("write_segment_file", index, <<path>>, FALSE), Failure("OSError"))
              /\ UNCHANGED segment_paths
    /\ UNCHANGED <<stream, written>>
    /\ UNCHANGED stFrame

\* if skip_remux: self.hls_processor.concat_to_ts(segment_paths, output_ts);
\* return output_ts
ConcatToTs ==
    /\ stPc = "download_segment"
    /\ exhausted(segment_paths, stream.segments)
    /\ stream.skip_remux
    /\ LET output_ts == streams_output(stream.output_path, stream.skip_remux) IN
       \/ /\ Return(Call("concat_to_ts", -1, <<segment_paths, output_ts>>, TRUE), output_ts)
          /\ written' = written \cup
                {[path |-> output_ts, content |-> concat_to_ts(segment_paths, temp_dir.files)]}
       \/ /\ Raise(Call("concat_to_ts", -1, <<segment_paths, output_ts>>, FALSE),
                   Failure("OSError"))
          /\ UNCHANGED written
    /\ UNCHANGED <<stream, segment_paths>>
    /\ UNCHANGED stFrame

\* else: self.hls_processor.build_concat_list(segment_paths, concat_list)
BuildConcatList ==
    /\ stPc = "download_segment"
    /\ exhausted(segment_paths, stream.segments)
    /\ ~stream.skip_remux
    /\ \/ /\ Continue(Call("build_concat_list", -1, <<segment_paths, concat_list>>, TRUE),
                      "remux_to_mp4")
          /\ temp_dir' = [temp_dir EXCEPT !.files =
                             @ \cup {[path |-> concat_list,
                                      content |-> build_concat_list(segment_paths)]}]
       \/ Raise(Call("build_concat_list", -1, <<segment_paths, concat_list>>, FALSE),
                Failure("OSError"))
    /\ UNCHANGED <<stream, segment_paths, written>>
    /\ UNCHANGED stFrame

\* try: self.hls_processor.remux_to_mp4(concat_list, output_mp4)
\* except Exception: ...; otherwise return output_mp4
RemuxToMp4 ==
    /\ stPc = "remux_to_mp4"
    /\ \E proc \in Procs("stderr of remux") :
        LET output_mp4 == streams_output(stream.output_path, stream.skip_remux)
            error == remux_to_mp4(proc)
            call == Call("remux_to_mp4", -1, <<concat_list, output_mp4>>, error = NoError)
        IN  IF error = NoError
            THEN /\ Return(call, output_mp4)
                 /\ written' = written \cup {[path |-> output_mp4, content |-> <<"remuxed">>]}
            ELSE IF caught(error)
            THEN /\ trace' = Append(trace, call)
                 /\ stPc' = "reencode_to_mp4"
                 /\ outcome_st' = [outcome_st EXCEPT !.error = error]
                 /\ UNCHANGED <<temp_dir, written>>
            ELSE /\ Raise(call, error)
                 /\ UNCHANGED written
    /\ UNCHANGED <<stream, segment_paths>>
    /\ UNCHANGED stFrame

\* self.hls_processor.reencode_to_mp4(concat_list, output_mp4) in the handler
\* of the remux failure; return output_mp4
ReencodeToMp4 ==
    /\ stPc = "reencode_to_mp4"
    /\ \E proc \in Procs("stderr of re-encode") :
        LET output_mp4 == streams_output(stream.output_path, stream.skip_remux)
            error == reencode_to_mp4(proc)
            call == Call("reencode_to_mp4", -1, <<concat_list, output_mp4>>, error = NoError)
        IN  IF error = NoError
            THEN /\ Return(call, output_mp4)
                 /\ written' = written \cup {[path |-> output_mp4, content |-> <<"re-encoded">>]}
            ELSE /\ Raise(call, raised_in_handler(error, outcome_st.error))
                 /\ UNCHANGED written
    /\ UNCHANGED <<stream, segment_paths>>
    /\ UNCHANGED stFrame

NextSt ==
    \/ FetchPlaylist
    \/ ResolveVariant
    \/ EnumerateSegments
    \/ EnterTemp
    \/ DownloadSegment
    \/ DecryptSegment
    \/ WriteSegment
    \/ ConcatToTs
    \/ BuildConcatList
    \/ RemuxToMp4
    \/ ReencodeToMp4

SpecSt == InitSt /\ [][NextSt]_vars

\* ------------------- the retrieval loop, with the answer to each request
\* The state outside the retrieval loop and what its requests were answered.
tracedFrame == <<cfgVars, coVars, dlVars, hlsVars, streamVars, retryVars, parseVars,
                 mergeVars>>

\* kind: "main" | "gap"; exc: what the API client raised; empty: it answered
\* with an empty payload; end: it answered with items and with "-end-"
\* among the cursor tokens.
Answered(k, ans) ==
    [kind |-> k, exc |-> ans.exc, empty |-> ans.exc = "none" /\ ans.data = <<>>,
     end |-> ans.exc = "none" /\ ans.data # <<>> /\ Contains(ans.bookmarks, END)]

\* Requests in a row answered by an empty payload, counted at the main batches.
EmptyRun(run, k, ans) ==
    IF ans.exc = "none" /\ ans.data = <<>>
    THEN (IF k = "main" THEN Min(run + 1, MaxEmptyRun) ELSE run)
    ELSE 0

\* except EmptyResponseError in _scrape_board: count, stop at
\* max_consecutive_failures, else go on to the next batch.
BoardEmptyBatch(ans) ==
    /\ consecutive_empty_responses' = consecutive_empty_responses + 1
    /\ batch_size' = BatchSize(remains)
    /\ endSeen' = (endSeen \/ Contains(ans.bookmarks, END))
    /\ last' = Request("main", BatchSize(remains), remains, 0, FALSE)
    /\ lastMain' = MainBatch(last.kind = "none", FALSE, 0, Contains(ans.bookmarks, END))
    /\ gaps' = 0
    /\ IF consecutive_empty_responses' >= max_consecutive_failures
       THEN pc' = "done" /\ result' = Prefix(images, num)
       ELSE pc' = "loop" /\ UNCHANGED result
    /\ UNCHANGED <<kind, num, bookmarksCount, target, remains, images, bookmarks,
                   difference, interrupted, rejected, cs>>

BeginTraced == Entry /\ UNCHANGED <<histVars, tracedFrame>>

\* One pass of the main loop; for a board with the counter of empty batches.
MainRequestTraced ==
    /\ pc = "loop"
    /\ LoopContinues(remains)
    /\ \E ans \in ApiAnswers(BatchSize(remains), images, bookmarks) :
         /\ IF kind = "board"
            THEN LET r == get_images_with_retry(bookmarks, ans)
                 IN  IF r.exc = "EmptyResponseError"
                     THEN BoardEmptyBatch(ans)
                     ELSE /\ MainBatchOf(ans)
                          /\ consecutive_empty_responses' =
                                IF r.exc = "none" THEN 0 ELSE consecutive_empty_responses
            ELSE MainBatchOf(ans) /\ UNCHANGED consecutive_empty_responses
         /\ answered' = Answered("main", ans)
         /\ emptyRun' = EmptyRun(emptyRun, "main", ans)
    /\ UNCHANGED tracedFrame

GapRequestTraced ==
    /\ pc = "gap"
    /\ \E ans \in ApiAnswers(difference, images, bookmarks) :
         /\ GapFillOf(ans)
         /\ answered' = Answered("gap", ans)
         /\ emptyRun' = EmptyRun(emptyRun, "gap", ans)
    /\ UNCHANGED <<consecutive_empty_responses, tracedFrame>>

FinishTraced == LoopEnd /\ UNCHANGED <<histVars, tracedFrame>>

NextTraced == BeginTraced \/ MainRequestTraced \/ GapRequestTraced \/ FinishTraced

SpecTraced == LiveInit /\ [][NextTraced]_vars

\* ------------------------------------------- ResponseParser.from_responses
\* The state outside the scraper's helpers taken alone.
scrFrame == <<fetchVars, cs, cfgVars, coVars, dlVars, hlsVars, streamVars>>

OutsideIdle == FetchIdle /\ CfgIdle /\ CoIdle /\ DlIdle /\ HlsIdle /\ StreamIdle

\* An item of response_data: whether it is a dict, whether it has
\* images.orig, whether int() accepts orig's width and height, the two
\* numbers, and orig's url (0: none).
Item(dict, orig, numeric, width, height, url) ==
    [dict |-> dict, orig |-> orig, numeric |-> numeric, width |-> width,
     height |-> height, url |-> url]

Sides == {1, 3}

MinSides == {0, 2}

PayloadItems ==
    {Item(FALSE, FALSE, FALSE, 0, 0, 0),
     Item(TRUE, FALSE, FALSE, 0, 0, 0),
     Item(TRUE, TRUE, FALSE, 0, 0, 1)}
    \cup {Item(TRUE, TRUE, TRUE, w, h, u) : w \in Sides, h \in Sides, u \in 0..2}

\* The checks of the loop in from_responses that end in `continue`.
admissible(item, min_res) ==
    /\ item.dict
    /\ item.orig
    /\ item.numeric
    /\ ~(item.width < min_res[1] \/ item.height < min_res[2])
    /\ item.url # 0

PinterestMedia(item) == [src |-> item.url, resolution |-> <<item.width, item.height>>]

\* ResponseParser.from_responses(response_data, min_resolution): it raises
\* when from_responses does, and returns the media of the items kept.
from_responses_at(response_data, min_res) ==
    LET raw == [i \in 1..Len(response_data) |->
                  RawItem(response_data[i].url, admissible(response_data[i], min_res))]
        kept == SelectSeq(response_data, LAMBDA item : admissible(item, min_res))
    IN  [err |-> from_responses(raw).err,
         items |-> IF from_responses(raw).err = "none"
                   THEN [i \in 1..Len(kept) |-> PinterestMedia(kept[i])]
                   ELSE <<>>]

InitParse ==
    /\ OutsideIdle
    /\ HistIdle
    /\ RetryIdle
    /\ MergeIdle
    /\ payload \in SeqsUpTo(PayloadItems, MaxPayload)
    /\ min_resolution \in MinSides \X MinSides
    /\ parsePc = "call"
    /\ media_items = <<>>

FromResponses ==
    /\ parsePc = "call"
    /\ LET r == from_responses_at(payload, min_resolution)
       IN  /\ parsePc' = IF r.err = "none" THEN "returned" ELSE "raised"
           /\ media_items' = r.items
    /\ UNCHANGED <<payload, min_resolution>>
    /\ UNCHANGED <<scrFrame, histVars, retryVars, mergeVars>>

NextParse == FromResponses

SpecParse == InitParse /\ [][NextParse]_vars

\* ------------------------------------ ApiScraper._get_images_with_retry
\* What the API may answer to one request of the call: an empty payload, a
\* payload with one item, a payload whose only item the parser drops, an
\* invalid response, a transport error.
RetryAnswers ==
    {Answer("none", <<>>, <<>>),
     Answer("none", Payload(1, 0, 0, 1), <<"b">>),
     Answer("none", Payload(0, 0, 1, 1), <<"b">>),
     Answer("ValueError", <<>>, <<>>),
     Answer("Other", <<>>, <<>>)}

Attempts(requests, waits, exc, batch) ==
    [requests |-> requests, waits |-> waits, exc |-> exc, batch |-> batch]

\* The body of `for attempt in range(self.max_retries + 1)` from attempt on,
\* waits being the sleeps so far; after the loop last_error is raised.
RECURSIVE retry_loop(_, _, _, _, _, _)
retry_loop(bm, replies, attempt, retries, delay, waits) ==
    IF attempt > retries
    THEN Attempts(attempt, waits, "EmptyResponseError", <<>>)
    ELSE LET r == get_images(bm, replies[attempt + 1])
         IN  IF r.exc = "EmptyResponseError"
             THEN retry_loop(bm, replies, attempt + 1, retries, delay,
                             IF attempt < retries
                             THEN Append(waits, delay * (2 ^ attempt))
                             ELSE waits)
             ELSE Attempts(attempt + 1, waits, r.exc, r.batch)

InitRetry ==
    /\ OutsideIdle
    /\ HistIdle
    /\ ParseIdle
    /\ MergeIdle
    /\ self_max_retries \in 0..MaxApiRetries
    /\ retry_delay \in {1, 2}
    /\ answers \in {a \in SeqsUpTo(RetryAnswers, MaxApiRetries + 1) :
                      Len(a) = self_max_retries + 1}
    /\ rwPc = "call"
    /\ attempts = NoAttempts

\* One call of _get_images_with_retry on a fresh BookmarkManager(3).
GetImagesWithRetry ==
    /\ rwPc = "call"
    /\ attempts' = retry_loop(BookmarkManager(ScrapeBookmarks), answers, 0,
                              self_max_retries, retry_delay, <<>>)
    /\ rwPc' = IF attempts'.exc = "none" THEN "returned" ELSE "raised"
    /\ UNCHANGED <<self_max_retries, retry_delay, answers>>
    /\ UNCHANGED <<scrFrame, histVars, parseVars, mergeVars>>

NextRetry == GetImagesWithRetry

SpecRetry == InitRetry /\ [][NextRetry]_vars

\* --------------------------------------- the accumulated list, merged
Sources == 1..MaxUrls

Batches == SeqsUpTo(Sources, MaxBatch)

InitMerge ==
    /\ OutsideIdle
    /\ HistIdle
    /\ RetryIdle
    /\ ParseIdle
    /\ medias = <<>>
    /\ old_medias = <<>>
    /\ mergePc = "loop"
    /\ current_img_batch = <<>>

\* medias.extend(current_img_batch); medias = self._unique_images(medias)
Merge ==
    /\ mergePc # "idle"
    /\ \E batch \in Batches :
         /\ Len(medias) + Len(batch) <= MaxAccumulated
         /\ current_img_batch' = batch
         /\ medias' = unique_images(medias \o batch)
    /\ old_medias' = medias
    /\ mergePc' = "merged"
    /\ UNCHANGED <<scrFrame, histVars, retryVars, parseVars>>

\* images.extend(additional_images) of the gap-filling loops
Extend ==
    /\ mergePc # "idle"
    /\ \E additional_images \in Batches :
         /\ Len(medias) + Len(additional_images) <= MaxAccumulated
         /\ current_img_batch' = additional_images
         /\ medias' = medias \o additional_images
    /\ old_medias' = medias
    /\ mergePc' = "extended"
    /\ UNCHANGED <<scrFrame, histVars, retryVars, parseVars>>

NextMerge == Merge \/ Extend

SpecMerge == InitMerge /\ [][NextMerge]_vars

TypeOK ==
    /\ pc \in {"start", "loop", "gap", "done", "raised", "bm", "entry", "api",
               "config_error", "idle"}
    /\ coPc \in {"idle", "start", "loop", "cancel", "exit", "returned", "raised",
                 "written"}
    /\ done <= Len(items)
    /\ remains \in Int
    /\ Len(bookmarks.bookmarks) <= MaxStored
    /\ Len(cs.bookmarks) <= MaxAdded

\* ----------------------------------------------------------------- claims
Returned == pc = "done"

Running == pc \in {"loop", "gap"}

Distinct(images_) == {images_[i] : i \in 1..Len(images_)}

\* C1: the list scrape / search returns has at most num items.
C1_ResultAtMostNum == Returned => Len(result) <= num

\* C1 witness: more than num items were accumulated and num of them returned.
C1_Witness == Returned /\ num > 0 /\ Len(images) > num /\ Len(result) = num

\* C2: for num >= 1 and whatever the API answers, the call comes to an end
\* (it returns or raises).
C2_Terminates == <>(pc \in {"done", "raised"})

\* C3 as stated: a call that returned either returns exactly num items (after
\* the board clamp) or saw the terminal marker in a returned cursor token.
C3_FullOrEndSeen == Returned => (Len(result) = target \/ endSeen)

\* C3 amended: a call that returned either returns a full list (exactly num
\* items for pin and search, at least min(num, pin_count) and at most num for a
\* board), or saw the terminal marker, or was interrupted by a ValueError /
\* EmptyResponseError of a request.
C3_FullOrEndSeenOrInterrupted ==
    Returned =>
        \/ (IF kind = "board" THEN Len(result) >= target /\ Len(result) <= num
            ELSE Len(result) = target)
        \/ endSeen
        \/ interrupted

\* C3 witness: an interrupted call returned fewer than num items without
\* ever seeing the marker.
C3_Witness == Returned /\ interrupted /\ ~endSeen /\ Len(result) < target

\* C4: once a response has delivered "-end-", the main loop is never again
\* at its head with remains > 0, that is, about to send a batch request.
C4_NoBatchAfterEnd == ~(endSeen /\ pc = "loop" /\ LoopContinues(remains))

\* C5: the returned list holds no source URL twice.
C5_NoDuplicates ==
    Returned => \A i, j \in 1..Len(result) : i # j => result[i] # result[j]

\* C6: whenever the loop condition is evaluated, remains is num (after the
\* clamp) minus the number of distinct source URLs accumulated.
C6_RemainsCountsUnique ==
    pc = "loop" => remains = target - Cardinality(Distinct(images))

\* C7: after a main batch that added fewer new unique items than batch_size,
\* with remains > 0 and no marker seen, a supplementary request for exactly
\* batch_size - newly_added is sent next.
C7_GapForShortfall ==
    (/\ Running
     /\ last.kind = "main"
     /\ lastMain.ok
     /\ lastMain.new < batch_size
     /\ remains > 0
     /\ ~endSeen)
    => (pc = "gap" /\ difference = batch_size - lastMain.new)

\* The scenario of C8: num = 60, and the first batch, of 50, came back with 40
\* new items (a page of 50 of which the parser dropped 10) and no terminal
\* marker.
Scenario ==
    /\ num = 60
    /\ target = 60
    /\ batch_size = 50
    /\ lastMain = MainBatch(TRUE, TRUE, 40, FALSE)

\* C8 as stated: in the scenario, exactly one supplementary request was sent
\* when the loop condition is evaluated again.
C8_ExactlyOneGap == (Scenario /\ pc = "loop") => gaps = 1

\* C8 amended: in the scenario the next request is a supplementary request
\* for 10; the loop condition is not evaluated before one was sent; and if the
\* first one succeeds with 10 new items, no second one follows and the next
\* main batch asks for the remaining 10.
C8_ShortfallOfTen ==
    /\ (Scenario /\ Running /\ gaps = 0) => (pc = "gap" /\ difference = 10)
    /\ (Scenario /\ pc = "loop") => gaps >= 1
    /\ (/\ Scenario
        /\ Running
        /\ gaps = 1
        /\ last = Request("gap", 10, 20, 10, TRUE)
        /\ Cardinality(Distinct(images)) = 50)
       => (pc = "loop" /\ remains = 10 /\ BatchSize(remains) = 10)

\* C8 witness: the supplementary request for 10 brought 10 new items and the
\* loop is about to ask for the remaining 10.
C8_Witness ==
    /\ Scenario
    /\ gaps = 1
    /\ last = Request("gap", 10, 20, 10, TRUE)
    /\ pc = "loop"
    /\ remains = 10

\* C9: every request asks for 1..50 items, a main batch for min(50, remains),
\* and the API client never refuses a page size.
C9_PageSizes ==
    /\ ~rejected
    /\ last.kind # "none" => (last.size >= 1 /\ last.size <= 50)
    /\ last.kind = "main" => last.size = (IF last.rem > 50 THEN 50 ELSE last.rem)

\* C9 witness: with more than 50 items remaining, a main batch asked for 50
\* and a supplementary request for its shortfall followed.
C9_Witness ==
    /\ num = 60
    /\ batch_size = 50
    /\ last.kind = "gap"
    /\ last.size = 10

\* C10: a BookmarkManager never stores more tokens than its cap.
C10_StoredAtMostCap == pc = "bm" => Len(get_all(cs)) <= cs.last

\* C11: get() returns exactly the last min(K, n) of the n tokens added, in
\* insertion order: at most K tokens, and none when K = 0.
C11_GetLastTokens ==
    pc = "bm" =>
        LET all == get_all(cs)
            n == Len(all)
            k == Min(cs.last, n)
        IN  /\ get(cs) = SubSeq(all, n - k + 1, n)
            /\ Len(get(cs)) <= cs.last
            /\ (cs.last = 0 => get(cs) = <<>>)

\* C12: a BookmarkManager is constructed exactly for the caps 0..4, and starts
\* empty; for any other cap search fails with the constructor's error before
\* it has sent any request.
C12_CapCheckedBeforeRequests ==
    /\ pc = "config_error" => (bookmarksCount \notin 0..4 /\ io = 0)
    /\ pc = "bm" => bookmarksCount \in 0..4
    /\ (pc = "api" /\ ~init_raises(bookmarksCount))
          => get_all(BookmarkManager(bookmarksCount)) = <<>>

Ended == coPc \in {"returned", "raised", "written"}

Failed == {i \in 1..Len(fut) : fut[i] = "failed"}

\* C13: when run succeeds, its list has one entry per input item, and entry i
\* is what the worker returned for item i (None included).
C13_ResultsInInputOrder ==
    coPc \in {"returned", "written"} =>
        /\ Len(outcome.list) = total
        /\ \A i \in 1..total : outcome.list[i] = value[i]

\* C14: in collect-all mode with k >= 1 failed items of n, run raises one
\* DownloadError that says "k out of n" and has a line with the identifier
\* and the error of every failed item.
C14_AggregateNamesEveryFailure ==
    (coPc = "raised" /\ ~fail_fast) =>
        /\ outcome.exc = "DownloadError"
        /\ outcome.k = Cardinality(Failed)
        /\ outcome.total = total
        /\ \A i \in Failed :
              \E j \in 1..Len(outcome.lines) :
                  outcome.lines[j] = <<item_id(items[i]), i>>

\* C15: in fail-fast mode, every item that had not started when the first
\* failure was observed is cancelled and its worker is never called, and run
\* raises the error of the worker that failed.
C15_FailFastCancelsPending ==
    (fail_fast /\ coPc \in {"exit", "raised"}) =>
        /\ \A j \in pendingAtFail : fut[j] = "cancelled" /\ invoked[j] = 0
        /\ coPc = "raised" => (outcome = WorkerError(cur) /\ fut[cur] = "failed")

\* C16: the worker is never called twice for an item, and in collect-all mode
\* no item is cancelled and, when run ends, the worker was called exactly once
\* for every item.
C16_EveryItemAttemptedOnce ==
    /\ \A i \in 1..Len(invoked) : invoked[i] <= 1
    /\ ~fail_fast => \A i \in 1..Len(fut) : fut[i] # "cancelled"
    /\ (~fail_fast /\ Ended) => \A i \in 1..total : invoked[i] = 1

\* C16 witness: a collect-all run of several items ended with a failure, and
\* the other item was attempted and finished.
C16_Witness ==
    /\ ~fail_fast
    /\ coPc = "raised"
    /\ total >= 2
    /\ Failed # {}
    /\ \E i \in 1..total : fut[i] = "finished" /\ invoked[i] = 1

\* C17: the callback is called once for each completion the loop takes from
\* as_completed, success or failure: call number c is (c, total), c never
\* exceeds total, and a collect-all run ends with the call (total, total).
C17_ProgressCounts ==
    /\ \A c \in 1..Len(calls) : calls[c] = <<c, total>> /\ c <= total
    /\ coPc # "idle" =>
          Len(calls) = Cardinality(seen) - (IF coPc = "cancel" THEN 1 ELSE 0)
    /\ (~fail_fast /\ Ended /\ total > 0) => calls[Len(calls)] = <<total, total>>

\* C17 witness: a collect-all run with a success and a failure ended, and its
\* last call was (total, total).
C17_Witness ==
    /\ ~fail_fast
    /\ Ended
    /\ total >= 2
    /\ \E i, j \in seen : fut[i] = "failed" /\ fut[j] = "finished"
    /\ Len(calls) = total
    /\ calls[total] = <<total, total>>

\* C19: in download_media no descriptor has a local path before
\* download_concurrent has returned, none gets one if it raises, and after
\* the write-back each descriptor has the path of its own download.
C19_PathOnlyAfterSuccess ==
    caller = "download_media" =>
        /\ coPc # "written" => \A i \in 1..Len(local_path) : local_path[i] = None
        /\ coPc = "written" =>
              \A i \in 1..total :
                  fut[i] = "finished" /\ value[i] # None /\ local_path[i] = value[i]

\* C19 witness: the paths of several downloads were written back.
C19_Witness ==
    /\ caller = "download_media"
    /\ coPc = "written"
    /\ total >= 2
    /\ \A i \in 1..total : local_path[i] = i

\* The last two pieces of a URL are "." and ext.
EndsWith(url, ext) == Len(url) >= 2 /\ SubSeq(url, Len(url) - 1, Len(url)) = ext

\* The extension of a URL as it is written: what follows the last "." of its
\* last path segment, with the dot.
Extension(url) ==
    LET name == name_of(url)
    IN  IF \E i \in 1..(Len(name) - 1) : name[i] = "."
        THEN SubSeq(name, LastIndexOf(name, ".", Len(name)), Len(name))
        ELSE <<>>

Target(id, ext) == [dir |-> "output_dir", stem |-> id, suffix |-> ext]

\* C18 as stated: with downloadStreams and a stream, a stream URL ending in
\* .mp4 is byte-copied to dir/{id}.mp4 and any other is handed to the stream
\* processor; otherwise src is byte-copied to dir/{id}.<its extension, or
\* .jpg when it has none>, and the stream processor is not called.
C18_PathRule ==
    dlPc \in {"returned", "raised"} =>
        IF download_streams /\ pin_media.video_stream # NoStream
        THEN IF EndsWith(pin_media.video_stream, <<".", "mp4">>)
             THEN /\ blob = <<pin_media.video_stream, Target(pin_media.id, <<".", "mp4">>)>>
                  /\ streams = <<>>
             ELSE /\ blob = <<>>
                  /\ streams # <<>>
                  /\ streams[1] = pin_media.video_stream
        ELSE /\ streams = <<>>
             /\ blob = <<pin_media.src,
                         Target(pin_media.id,
                                IF Extension(pin_media.src) = <<>> THEN <<".", "jpg">>
                                ELSE Extension(pin_media.src))>>

\* C18 amended: as C18, with the extension of a URL taken as its file name's
\* suffix in lower case: a stream URL is byte-copied when that is .mp4, and
\* src is stored under that, or under .jpg when the name has no suffix.
C18_PathRuleLowerCase ==
    dlPc \in {"returned", "raised"} =>
        IF download_streams /\ pin_media.video_stream # NoStream
        THEN IF lower(suffix(pin_media.video_stream)) = <<".", "mp4">>
             THEN /\ blob = <<pin_media.video_stream, Target(pin_media.id, <<".", "mp4">>)>>
                  /\ streams = <<>>
                  /\ dlPc = "returned" => ret = Target(pin_media.id, <<".", "mp4">>)
             ELSE /\ blob = <<>>
                  /\ streams = <<pin_media.video_stream,
                                 Target(pin_media.id, <<".", "mp4">>), skip_remux>>
        ELSE /\ streams = <<>>
             /\ LET ext == lower(suffix(pin_media.src))
                    path == Target(pin_media.id, IF ext = <<>> THEN <<".", "jpg">> ELSE ext)
                IN  /\ blob = <<pin_media.src, path>>
                    /\ dlPc = "returned" => ret = path

\* C18 witness: a stream URL written .MP4 was byte-copied to {id}.mp4.
C18_Witness ==
    /\ dlPc = "returned"
    /\ download_streams
    /\ pin_media.video_stream = Url(<<"v", ".", "MP4">>)
    /\ blob = <<pin_media.video_stream, Target(pin_media.id, <<".", "mp4">>)>>
    /\ streams = <<>>

\* C20: resolve_variant returns the (joined) URI of a sub-playlist whose
\* bandwidth no other sub-playlist exceeds, and raises HlsDownloadError when
\* there is no sub-playlist.
C20_BestVariant ==
    hlsPc = "resolved" =>
        IF playlist = <<>>
        THEN resolved.exc = "HlsDownloadError"
        ELSE /\ resolved.exc = "none"
             /\ \E i \in 1..Len(playlist) :
                   /\ resolved.url = urljoin("base", playlist[i].uri)
                   /\ \A j \in 1..Len(playlist) :
                         playlist[j].bandwidth <= playlist[i].bandwidth

\* The bytes an IV text of the playlist denotes.
IvBytes(text) ==
    IF text = IvLowerCase
    THEN <<18, 52, 86, 120, 144, 171, 205, 239, 18, 52, 86, 120, 144, 171, 205, 239>>
    ELSE <<160, 177, 194, 211, 228, 245, 6, 23, 40, 57, 74, 91, 108, 125, 142, 159>>

\* n below 2^24 as a 16-byte big-endian integer.
BigEndian16(n) ==
    [k \in 1..16 |-> IF k = 16 THEN n % 256
                     ELSE IF k = 15 THEN (n \div 256) % 256
                     ELSE IF k = 14 THEN (n \div 65536) % 256
                     ELSE 0]

\* C21: an encrypted segment without an explicit IV is decrypted with
\* (media_sequence + index) as a 16-byte big-endian integer (media_sequence
\* 100 and index 5 give 15 zero bytes and then 0x69); a segment with an
\* explicit IV is decrypted with the 16 bytes that IV denotes.
C21_DecryptIv ==
    /\ compute_default_iv(100, 5) = <<0, 0, 0, 0, 0, 0, 0, 0, 0, 0, 0, 0, 0, 0, 0, 105>>
    /\ \A i \in 1..Len(decrypted) :
        LET segment == m3u8.segments[i] IN
        segment.key # <<>> /\ decrypted[i].exc = "none" =>
            decrypted[i].iv = IF segment.key[1].iv = <<>>
                              THEN BigEndian16(m3u8.media_sequence + (i - 1))
                              ELSE IvBytes(segment.key[1].iv)

C21_Witness ==
    /\ Len(decrypted) = 2
    /\ m3u8.media_sequence = 65535
    /\ m3u8.segments[1].key # <<>> /\ m3u8.segments[1].key[1].iv = IvUpperCase
    /\ m3u8.segments[2].key # <<>> /\ m3u8.segments[2].key[1].iv = <<>>
    /\ decrypted[2].iv = <<0, 0, 0, 0, 0, 0, 0, 0, 0, 0, 0, 0, 0, 1, 0, 0>>

\* C22: enumerate_segments raises when the playlist has no segment, when a
\* segment's key has a method other than "AES-128" and when a segment's key
\* has no uri; what it returns has one SegmentInfo per segment, in playlist
\* order with index 0..n-1, and a SegmentInfo with a method has a key uri and
\* an iv.
C22_EnumerateSegments ==
    segPc \in {"returned", "raised"} =>
        /\ (\/ m3u8.segments = <<>>
            \/ \E i \in 1..Len(m3u8.segments) :
                 /\ m3u8.segments[i].key # <<>>
                 /\ \/ m3u8.segments[i].key[1].method # "AES-128"
                    \/ m3u8.segments[i].key[1].uri = <<>>)
           => /\ segPc = "raised"
              /\ segExc \in {"Playlist has no segments", "Unsupported encryption method",
                             "Encrypted segment without key URI"}
        /\ segPc = "returned" =>
              /\ Len(segments) = Len(m3u8.segments)
              /\ \A i \in 1..Len(segments) :
                    /\ segments[i].index = i - 1
                    /\ segments[i].uri = <<"base", m3u8.segments[i].uri.name>>
                    /\ segments[i].method # NoMethod =>
                          segments[i].key_uri # <<>> /\ segments[i].iv # <<>>

C22_Witness ==
    /\ segPc = "returned"
    /\ Len(segments) = 2
    /\ segments[1].uri = <<"base", "b.ts">> /\ segments[1].method = "AES-128"
    /\ segments[2].uri = <<"base", "a.ts">> /\ segments[2].method = NoMethod

Ok(resp) == resp.exc = "none" /\ resp.status_code = 200

\* C28: download_segment sends at most max_retries requests; it returns the
\* body of the first response with status 200 and sends nothing after it; it
\* raises HlsDownloadError with the failure of the last request when every
\* one of its max_retries requests failed.
C28_DownloadSegment ==
    /\ Len(responses) <= max_retries
    /\ \A i \in 1..(Len(responses) - 1) : ~Ok(responses[i])
    /\ rtPc = "returned" =>
          /\ Ok(responses[Len(responses)])
          /\ content = responses[Len(responses)].content
    /\ rtPc = "raised" =>
          /\ Len(responses) = max_retries
          /\ \A i \in 1..Len(responses) : ~Ok(responses[i])
          /\ max_retries > 0 => last_exc = failure(responses[Len(responses)])
    /\ rtPc = "loop" /\ responses # <<>> => ~Ok(responses[Len(responses)])

C28_Witness ==
    /\ rtPc = "raised"
    /\ max_retries = 3
    /\ responses[2].status_code = 503
    /\ responses[3].exc = "Timeout"
    /\ last_exc.type = "Timeout"

C27_KeyDownloadedOnce ==
    /\ \A u \in KeyUrls : downloads[u] <= 1
    /\ \A w \in Getters : getter[w].pc = "returned" => getter[w].ret = key_of(getter[w].url)

CallsOf(op) == SelectSeq(trace, LAMBDA c : c.op = op)

EndedSt == stPc \in {"returned", "raised"}

\* C23: with skip_remux false, remux is invoked at most once, and once when
\* the manifest was built; re-encode is invoked, once and with the manifest
\* and output path of the remux, exactly when the remux failed.
C23_RemuxThenReencode ==
    ~stream.skip_remux =>
        LET remux == CallsOf("remux_to_mp4")
            reencode == CallsOf("reencode_to_mp4")
            built == CallsOf("build_concat_list")
        IN  /\ Len(remux) <= 1 /\ Len(reencode) <= 1
            /\ Len(reencode) = 1 =>
                  Len(remux) = 1 /\ ~remux[1].ok /\ reencode[1].args = remux[1].args
            /\ Len(remux) = 1 /\ remux[1].ok => Len(reencode) = 0
            /\ EndedSt /\ Len(remux) = 1 /\ ~remux[1].ok => Len(reencode) = 1
            /\ EndedSt /\ Len(built) = 1 /\ built[1].ok => Len(remux) = 1
            /\ stPc = "returned" => Len(remux) = 1

C23_Witness ==
    /\ stPc = "returned"
    /\ ~stream.skip_remux
    /\ Len(CallsOf("remux_to_mp4")) = 1 /\ ~CallsOf("remux_to_mp4")[1].ok
    /\ Len(CallsOf("reencode_to_mp4")) = 1 /\ CallsOf("reencode_to_mp4")[1].ok

\* C24: with skip_remux true, download_streams invokes neither remux nor
\* re-encode; when it returns it has called concat_to_ts once, the file at
\* output_path with suffix .ts holds the segments' bytes in order, and that
\* path is what it returns.
C24_SkipRemux ==
    stream.skip_remux =>
        /\ CallsOf("remux_to_mp4") = <<>>
        /\ CallsOf("reencode_to_mp4") = <<>>
        /\ stPc = "returned" =>
              LET output_ts == [dir |-> stream.output_path.dir,
                                stem |-> stream.output_path.stem,
                                suffix |-> <<".", "ts">>]
              IN  /\ outcome_st.ret = output_ts
                  /\ Len(CallsOf("concat_to_ts")) = 1
                  /\ written = {[path |-> output_ts,
                                 content |-> [i \in 1..stream.segments |-> [segment |-> i - 1]]]}

C24_Witness ==
    /\ stPc = "returned"
    /\ stream.skip_remux
    /\ stream.segments = 2
    /\ stream.output_path.suffix = <<".", "mp4">>
    /\ outcome_st.ret.suffix = <<".", "ts">>

\* The calls of a download_streams in which no call fails but the remux.
ExpectedCalls(st) ==
    (IF st.is_variant
     THEN <<<<"fetch_playlist", -1>>, <<"resolve_variant", -1>>, <<"fetch_playlist", -1>>>>
     ELSE <<<<"fetch_playlist", -1>>>>)
    \o <<<<"enumerate_segments", -1>>>>
    \o [k \in 1..(3 * st.segments) |->
          <<(<<"download_segment", "decrypt", "write_segment_file">>)[((k - 1) % 3) + 1],
            (k - 1) \div 3>>]
    \o (IF st.skip_remux
        THEN <<<<"concat_to_ts", -1>>>>
        ELSE <<<<"build_concat_list", -1>>, <<"remux_to_mp4", -1>>, <<"reencode_to_mp4", -1>>>>)

ExpectedSegmentPath(index) ==
    [dir |-> "td", name |-> <<"segment_", "0", "0", "0", "0", Digits[index + 1], ".ts">>]

\* C25: the calls of one download_streams come in the order fetch playlist,
\* (resolve variant, fetch playlist), enumerate, then per segment in index
\* order download, decrypt and write to segment_{i:05d}.ts, then assembly;
\* no call follows a failed one but the re-encode after a failed remux; the
\* concat manifest lists the segment files in ascending index order.
C25_SequentialInOrder ==
    /\ Len(trace) <= Len(ExpectedCalls(stream))
    /\ \A k \in 1..Len(trace) :
          /\ <<trace[k].op, trace[k].index>> = ExpectedCalls(stream)[k]
          /\ k < Len(trace) => trace[k].ok \/ trace[k].op = "remux_to_mp4"
          /\ trace[k].op = "write_segment_file" =>
                trace[k].args = <<ExpectedSegmentPath(trace[k].index)>>
    /\ \A f \in temp_dir.files :
          f.path = concat_list =>
              f.content = [i \in 1..stream.segments |-> ExpectedSegmentPath(i - 1)]

C25_Witness ==
    /\ stream.is_variant
    /\ stream.segments = 2
    /\ stPc = "remux_to_mp4"
    /\ Len(trace) = 11
    /\ \E f \in temp_dir.files : f.path = concat_list

\* C29: when the remux and the re-encode both fail, the error raised to the
\* caller holds what remux wrote to stderr and what re-encode wrote to stderr.
C29_BothStderrTails ==
    /\ stPc = "raised"
    /\ Len(CallsOf("remux_to_mp4")) = 1
    /\ Len(CallsOf("reencode_to_mp4")) = 1
    => {"stderr of remux", "stderr of re-encode"} \subseteq outcome_st.error.stderr

\* C30: when download_streams has returned or raised, the temporary
\* directory it created after the enumeration does not exist, and neither do
\* the segment files and the manifest in it.
C30_TempDirGone ==
    EndedSt =>
        /\ temp_dir.state # "exists"
        /\ temp_dir.files = {}
        /\ CallsOf("enumerate_segments") # <<>> /\ CallsOf("enumerate_segments")[1].ok
              => temp_dir.state = "removed"

C30_Witness ==
    /\ stPc = "raised"
    /\ temp_dir.state = "removed"
    /\ Len(segment_paths) = 2
    /\ Len(CallsOf("reencode_to_mp4")) = 1

AssemblyOps == {"concat_to_ts", "build_concat_list", "remux_to_mp4", "reencode_to_mp4"}

SegmentOps == {"download_segment", "decrypt", "write_segment_file"}

\* C40: an assembly call (concat, manifest, remux, re-encode) comes only after
\* every segment of the playlist was downloaded, decrypted and written; once
\* a segment's download, decryption or write has failed, download_streams
\* raises, with no assembly call made and no file written outside the
\* temporary directory.
C40_AllOrNothing ==
    /\ \A k \in 1..Len(trace) :
          trace[k].op \in AssemblyOps =>
              \A index \in 0..(stream.segments - 1) : \A op \in SegmentOps :
                  \E j \in 1..(k - 1) :
                      trace[j].op = op /\ trace[j].index = index /\ trace[j].ok
    /\ (\E k \in 1..Len(trace) : trace[k].op \in SegmentOps /\ ~trace[k].ok) =>
          /\ stPc = "raised"
          /\ \A k \in 1..Len(trace) : trace[k].op \notin AssemblyOps
          /\ written = {}

\* C40 witness: the second segment's decryption failed after the first segment
\* was written, and download_streams raised.
C40_Witness ==
    /\ stream.segments = 2
    /\ stPc = "raised"
    /\ Len(segment_paths) = 1
    /\ trace[Len(trace)] = Call("decrypt", 1, <<>>, FALSE)
    /\ written = {}

\* C39: from_responses raises EmptyResponseError exactly when no item of the
\* payload is admissible, an empty payload included, and every item it
\* returns is at least min_resolution wide and high.
C39_EmptyErrorWhenNothingAdmissible ==
    parsePc \in {"returned", "raised"} =>
        /\ parsePc = "raised" <=>
              \A i \in 1..Len(payload) : ~admissible(payload[i], min_resolution)
        /\ \A i \in 1..Len(media_items) :
              /\ media_items[i].resolution[1] >= min_resolution[1]
              /\ media_items[i].resolution[2] >= min_resolution[2]

\* The answers with an empty payload at the head of the answers.
RECURSIVE EmptyHead(_)
EmptyHead(replies) ==
    IF replies # <<>> /\ Head(replies) = Answer("none", <<>>, <<>>)
    THEN 1 + EmptyHead(Tail(replies))
    ELSE 0

\* C31: a call of _get_images_with_retry whose first k requests are answered
\* by an empty payload sends min(k + 1, max_retries + 1) requests, sleeps
\* retry_delay * 2^attempt after the failed attempt number attempt when
\* another attempt follows, and raises EmptyResponseError exactly when all
\* max_retries + 1 attempts were answered by an empty payload.
C31_RetryOnEmptyBatch ==
    rwPc \in {"returned", "raised"} =>
        LET k == EmptyHead(answers)
        IN  /\ attempts.requests = Min(k + 1, self_max_retries + 1)
            /\ attempts.waits =
                  [a \in 1..Min(k, self_max_retries) |-> retry_delay * (2 ^ (a - 1))]
            /\ attempts.exc = "EmptyResponseError" <=> k = self_max_retries + 1

\* A request is still to come: the call is in its gap-filling loop, or at a
\* loop condition that holds.
RequestAhead == pc = "gap" \/ (pc = "loop" /\ LoopContinues(remains))

\* C32: a board scrape counts the main batches in a row that came back empty,
\* a batch with items setting the count back to 0, goes on after fewer than
\* 3 of them, and has returned once 3 batches in a row came back empty.
C32_BoardAbortsAfterThreeEmpty ==
    kind = "board" /\ pc # "start" =>
        /\ emptyRun >= max_consecutive_failures => pc = "done"
        /\ emptyRun = 0 => consecutive_empty_responses = 0
        /\ consecutive_empty_responses <= emptyRun

\* C33: when a main batch of a pin or search call comes back empty, or as an
\* invalid response, the call returns the items accumulated so far, and no
\* request follows.
C33_AbortOnFirstEmptyBatch ==
    /\ kind \in {"pin", "search"}
    /\ answered.kind = "main"
    /\ answered.empty \/ answered.exc = "ValueError"
    => pc = "done" /\ result = Prefix(images, num)

\* C34 as stated: when a request, main batch or gap-filling, raises an
\* exception that is no ValueError and no EmptyResponseError, the call raises
\* it, and no request follows.
C34_OtherExceptionsPropagate == answered.exc = "Other" => pc = "raised"

\* C34 amended: such an exception of a main batch request, or of a
\* gap-filling request of a search, makes the call raise; the gap-filling of
\* a pin or board call swallows it, ends, and hands over to the main loop
\* with the accumulated list, remains and the cursor as they were.
C34_PropagateButPinBoardGap ==
    answered.exc = "Other" =>
        IF answered.kind = "main" \/ kind = "search"
        THEN pc = "raised"
        ELSE /\ pc = "loop"
             /\ last = Request("gap", difference, remains, 0, FALSE)
             /\ ~interrupted

\* C34 witness: the gap-filling request of a board call raised a transport
\* error, and the call is back at its main loop, about to send a batch.
C34_Witness ==
    /\ kind = "board"
    /\ answered = [kind |-> "gap", exc |-> "Other", empty |-> FALSE, end |-> FALSE]
    /\ pc = "loop"
    /\ LoopContinues(remains)

\* C35: once a gap-filling response has delivered "-end-", no request
\* follows, gap-filling or main batch.
C35_NoRequestAfterGapEnd == answered.kind = "gap" /\ answered.end => ~RequestAhead

\* C36: a board call sends no request once min(num, pin_count) different
\* items are accumulated, and returns at most min(num, pin_count) items.
C36_BoardTarget ==
    kind = "board" /\ pc # "start" =>
        /\ Cardinality(Distinct(images)) >= target => ~RequestAhead
        /\ Returned => Len(result) <= target

\* C38: a call with num <= 0 raises, before any request is sent; it does not
\* return.
C38_NonPositiveCountRaises ==
    num <= 0 /\ pc \in {"done", "raised"} => pc = "raised" /\ last = NoRequest

\* The position of the first occurrence of u in list.
FirstAt(list, u) == CHOOSE i \in 1..Len(list) : list[i] = u /\ \A j \in 1..(i - 1) : list[j] # u

IsPrefix(p, list) == Len(p) <= Len(list) /\ SubSeq(list, 1, Len(p)) = p

\* C37: after a batch is merged the accumulated list holds every URL of the
\* old list and of the batch once, in the order of their first occurrences
\* there; _unique_images applied to it again changes nothing; and the URLs
\* accumulated before are at its head, in the order they had.  A gap-filling
\* extension keeps the old list as the head of the new one.
C37_FirstOccurrencesInOrder ==
    LET all == old_medias \o current_img_batch IN
    /\ mergePc = "merged" =>
          /\ Distinct(medias) = Distinct(all)
          /\ \A i, j \in 1..Len(medias) :
                i < j => FirstAt(all, medias[i]) < FirstAt(all, medias[j])
          /\ unique_images(medias) = medias
          /\ unique_images(unique_images(all)) = unique_images(all)
          /\ IsPrefix(unique_images(old_medias), medias)
    /\ mergePc = "extended" => IsPrefix(old_medias, medias)

\* C37 witness: a list was merged with a batch that repeats one of its URLs
\* and brings a new one.
C37_Witness ==
    /\ mergePc = "merged"
    /\ old_medias = <<2, 1>>
    /\ current_img_batch = <<1, 3>>
    /\ medias = <<2, 1, 3>>

====
